---- MODULE Spec2Model ----
(***************************************************************************)
(* Realtime-Datastreaming: devices, their outbox, and the collector.        *)
(*                                                                         *)
(* One device process (src/devices/device_simulator.py) with its durable   *)
(* outbox (OfflineQueue, a SQLite table) and its two threads:              *)
(*   - the main thread, DeviceSimulator.run -> _publish_device_data;       *)
(*   - the MQTT network thread, which runs the callbacks _on_connect       *)
(*     (-> _flush_queue) and _on_disconnect.                               *)
(* The MQTT client library and the broker are the environment: the result  *)
(* code of every publish and the connection events are its inputs.         *)
(*                                                                         *)
(* Further specifications over the same variables, each leaving the rest   *)
(* constant: BackoffSpec (DeviceSimulator.connect and the reconnect        *)
(* interval), CollectorSpec (src/collector/mqtt_collector.py: the receive  *)
(* callback, the ring, the worker threads, _shutdown) and ShaperSpec (the  *)
(* point shaper of _process_message), HarnessSpec (the outage scenarios    *)
(* of src/testing/test_network_failures.py) and WriterSpec (the batching   *)
(* writer the collector configures and writes to; RetrySpec its retries).  *)
(* StorageSpec is Spec with add_message failing; RunSpec and FairRunSpec   *)
(* are the collector in service, without shutdown; FairHarnessSpec is      *)
(* HarnessSpec with the harness thread always taking its next step.        *)
(***************************************************************************)
EXTENDS Integers, Sequences, FiniteSets, TLC

\* ------------------------------------------------------------------ bounds

\* OfflineQueue.max_queue_size (10000 in the source), scaled down.  11 is the
\* smallest snapshot for which a replay with a failed publish still passes
\* the "more than 90% flushed" test of _flush_queue (10/11 > 0.9).
MaxQueueSize == 11
\* samples produced by run() over the whole behaviour
MaxTicks == 2
\* faults the environment injects over the whole behaviour: publish calls
\* (direct or replay) that do not return MQTT_ERR_SUCCESS, drops of an
\* established connection, and stops of the device process
MaxFaults == 2
\* COLLECTOR_MAX_QUEUE_SIZE, the capacity of the collector's ring (10000 by
\* default), scaled down
MAX_QUEUE_SIZE == 2
\* COLLECTOR_WORKER_THREADS (4 by default), scaled down
NUM_WORKER_THREADS == 2
\* MQTTCollector._shutdown: for _ in range(30), one second each, scaled down
GraceIterations == 2
\* seconds of wall-clock time followed after the device process started
MaxElapsed == 4
\* NetworkFailureTester(num_devices=50), scaled down
NumDevices == 4
\* rows a device's outbox file is followed up to by the harness model
MaxOutbox == 2
\* scenarios run_all_tests runs (5 in TEST_SCENARIOS), scaled down
MaxScenarios == 2
\* _measure_flush_time: polls of the queue sizes before the timeout
\* (300 s / 0.5 s in the source), scaled down
MaxPolls == 2
\* publish intervals of an outage that _monitor_queue_growth is followed
\* through (300 and more in TEST_SCENARIOS), scaled down
MaxOutage == 2
\* batches the writer submits over the whole behaviour
MaxBatches == 3
\* the largest random jitter, in milliseconds, added to a retry delay
MaxJitterMs == 100
\* calls of DetectionLabelSimulator.get_next_label over the whole behaviour
MaxLabelTicks == 10
\* add_message calls that fail with a storage error over the whole behaviour
MaxIoErrors == 2
\* points _process_message hands to the writer over the whole behaviour:
\* a full batch and two more
MaxPoints == 252
\* batches the store rejects over the whole behaviour
MaxRejects == 1
\* the step of the writer's clock, in milliseconds
TickMs == 100

\* --------------------------------------------------------- program constants

\* _flush_queue: (flushed_count / len(messages)) > 0.9, as the ratio 9/10
FlushRatioNum == 9
FlushRatioDen == 10

\* a timeout below the target (mutation)
FlushTimeoutShort == 20
\* run_test_scenario: self._measure_flush_time(devices_to_disconnect,
\* timeout=300.0), in seconds
FlushTimeout == 300
\* run_test_scenario: "target_seconds": 30.0
FlushTarget == 30

\* result codes of client.publish as _publish_device_data and _flush_queue
\* tell them apart; "EXC" is an exception raised by the call
PublishResults == {"SUCCESS", "NO_CONN", "OTHER", "EXC"}

\* DeviceSimulator.__init__: self.reconnect_interval = 1 (also the reset
\* value of _on_connect)
InitialReconnectInterval == 1
\* min(self.reconnect_interval * 2, 120): the factor and the cap
BackoffFactor == 2
MaxReconnectInterval == 120

VARIABLES
    \* ---- the outbox file {queue_dir}/{device_id}_queue.db (survives the process)
    messages,     \* rows of table messages: records [id, msg]
    seq,          \* AUTOINCREMENT counter of the table (highest id ever given)
    \* ---- DeviceSimulator, volatile
    connected,    \* self.connected
    mainpc,       \* position of the main thread (run / _publish_device_data)
    cur,          \* the sample the current tick serialised (message)
    netpc,        \* position of the network thread (callbacks)
    snapshot,     \* _flush_queue: messages, the list get_all_messages returned
    idx,          \* _flush_queue: position of the for loop in snapshot (1-based)
    flushed,      \* _flush_queue: flushed_count
    failed,       \* _flush_queue: failed_count
    \* ---- environment: transport
    link,         \* "up" | "down": the session with the broker
    evt,          \* callback the network thread still has to run
    \* ---- history (observations, no effect on the program)
    produced,     \* samples produced so far (samples are numbered 1, 2, ...)
    handed,       \* samples for which some publish returned MQTT_ERR_SUCCESS
    evicted,      \* records deleted by drop-oldest
    direct,       \* this tick's sample was handed by a successful direct publish
    queued,       \* this tick's sample was appended to the outbox
    lastPub,      \* id of the record the running replay published last (0: none)
    bootIds,      \* ids in the outbox when this process started
    firstReplay,  \* "none" | "running" | "over": this process's first replay
    ticks,        \* samples produced in this behaviour
    calm,         \* the environment injects no fault any more
    fails,        \* publish calls that did not return MQTT_ERR_SUCCESS
    drops,        \* connections the transport dropped
    restarts,     \* times the process was stopped and started again
    \* ---- DeviceSimulator.connect and its backoff (BackoffSpec)
    reconnect_interval,       \* self.reconnect_interval
    last_connection_attempt,  \* self.last_connection_attempt
    now,          \* time.time(), in seconds
    bpc,          \* position of the main thread in run() / connect()
    looping,      \* client.loop_start() was called: the network thread runs
    bread,        \* connect(), except branch: the interval it read
    npc,          \* position of the network thread in _on_connect
    nread,        \* _on_connect, else branch: the interval it read
    \* ---- MQTTCollector (CollectorSpec)
    message_queue,    \* self.message_queue, a FIFO of bounded size
    shutdown_event,   \* self.shutdown_event
    message_count,    \* self.message_count
    error_count,      \* self.error_count
    processed_count,  \* self.processed_count
    cpc,          \* position of the main thread (loop_forever / _shutdown)
    cmsg,         \* _on_message: the message of the running callback
    waited,       \* _shutdown: iterations of the wait loop that slept
    wpc,          \* position of every worker thread
    wmsg,         \* _worker_thread: message_data of every worker
    write_api_closed, \* write_api.close() was called
    \* ---- history of the collector
    arrivals,     \* messages the broker delivered to _on_message
    written,      \* the records handed to write_api.write, in call order
    dropped,      \* messages _on_message discarded on a full ring
    calls,        \* times _process_message was called, per message
    \* ---- the point shaper of _process_message (ShaperSpec)
    payload,      \* the decoded JSON object
    point,        \* the Point built from it
    \* ---- NetworkFailureTester (HarnessSpec)
    device_processes, \* self.device_processes: the ids that have a process
    qsize,        \* rows in every device's outbox file
    hpc,          \* position of the harness
    victims,      \* run_test_scenario: devices_to_disconnect
    scenarios,    \* scenarios started so far
    polls,        \* _measure_flush_time: polls made in this scenario
    alive,        \* the device ids whose child process is running
    processes,    \* _start_devices: its local dict `processes`
    to_start,     \* _start_devices: the ids its loop has yet to spawn
    disconnect_percent, \* run_test_scenario: scenario["disconnect_percent"]
    remaining,    \* run_test_scenario: devices_remaining
    outage,       \* publish intervals elapsed since the victims were stopped
    initial_sizes, \* _monitor_queue_growth: initial_sizes
    flush_results, \* what _measure_flush_time returned
    result,       \* what run_test_scenario returned
    \* ---- storage errors of the outbox (StorageSpec)
    io_errors,    \* add_message calls that raised sqlite3.Error
    errors_logged, \* logger.error lines written for them
    \* ---- the batching writer, self.write_api (WriterSpec)
    pending,      \* points accepted and not yet submitted to the store
    age,          \* milliseconds since the oldest pending point was accepted
    rejected_batches, \* batches the store rejected with a non-retriable error
    flushed_by,   \* what made the writer submit its latest batch
    \* ---- retries of the batching writer (RetrySpec)
    batch,        \* number of the batch being submitted (0: none yet)
    wstate,       \* "idle", "submitted" (request under way) or "waiting"
    retries,      \* retries made for this batch
    delays,       \* the delays (ms) before the retries of this batch
    submissions,  \* per batch, the submissions made
    outcome,      \* per batch: "none", "stored" or "abandoned"
    \* ---- DetectionLabelSimulator (DetectionSpec)
    current_label,  \* self.current_label
    label_duration, \* self.label_duration
    reported,     \* the label the latest call of get_next_label returned
    label_ticks   \* calls of get_next_label so far

faults == fails + drops + restarts

\* the environment may still inject a fault
MayFault == ~calm /\ faults < MaxFaults

vars == <<messages, seq, connected, mainpc, cur, netpc, snapshot, idx, flushed,
          failed, link, evt, produced, handed, evicted, direct, queued, lastPub,
          bootIds, firstReplay, ticks, calm, fails, drops, restarts,
          reconnect_interval, last_connection_attempt, now, bpc, looping,
          bread, npc, nread,
          message_queue, shutdown_event, message_count, error_count,
          processed_count, cpc, cmsg, waited, wpc, wmsg, write_api_closed,
          arrivals, written, dropped, calls,
          payload, point,
          device_processes, qsize, hpc, victims, scenarios, polls, alive,
          processes, to_start,
          disconnect_percent, remaining, outage, initial_sizes,
          flush_results, result,
          io_errors, errors_logged,
          pending, age, rejected_batches, flushed_by,
          batch, wstate, retries, delays, submissions, outcome,
          current_label, label_duration, reported, label_ticks>>

dbVars   == <<messages, seq>>
mainVars == <<mainpc, cur, direct, queued>>
netVars  == <<netpc, snapshot, idx, flushed, failed, lastPub, firstReplay>>
envVars  == <<link, evt, drops, calm>>

backoffVars   == <<reconnect_interval, last_connection_attempt, now, bpc,
                   looping, bread, npc, nread>>
counterVars   == <<message_count, error_count, processed_count>>
collectorVars == <<message_queue, shutdown_event, counterVars, cpc, cmsg,
                   waited, wpc, wmsg, write_api_closed, arrivals, written,
                   dropped, calls>>
shaperVars    == <<payload, point>>
startVars     == <<processes, to_start>>
selectVars    == <<victims, disconnect_percent, remaining>>
outageVars    == <<outage, initial_sizes>>
measureVars   == <<polls, flush_results, result>>
harnessVars   == <<device_processes, qsize, hpc, scenarios, alive, startVars,
                   selectVars, outageVars, measureVars>>
storageVars   == <<io_errors, errors_logged>>
\* the test tooling and the faults beside the device and the collector
writerVars    == <<pending, age, rejected_batches, flushed_by>>
retryVars     == <<batch, wstate, retries, delays, submissions, outcome>>
detectionVars == <<current_label, label_duration, reported, label_ticks>>
toolVars      == <<harnessVars, storageVars, writerVars, retryVars,
                   detectionVars>>

\* one device and its outbox: the variables of Spec and FairSpec
outboxVars    == <<dbVars, connected, mainVars, netVars, envVars, produced,
                   handed, evicted, bootIds, ticks, fails, restarts>>

\* what the outbox model of one device (Spec, FairSpec) leaves alone
besideOutbox  == <<backoffVars, collectorVars, shaperVars, toolVars>>

\* what the collector model (CollectorSpec) leaves alone
besideCollector == <<outboxVars, backoffVars, shaperVars, toolVars>>

\* ------------------------------------------------------------ OfflineQueue

Row(id, msg) == [id |-> id, msg |-> msg]

Ids(rows) == {r.id : r \in rows}

\* SELECT MIN(id) FROM messages: the row holding it (rows is not empty)
MinRow(rows) == CHOOSE r \in rows : \A s \in rows : r.id <= s.id

\* the size test with > for >= (mutation)
QueueFullStrict(count) == count > MaxQueueSize

\* add_message: the size test
QueueFull(count) == count >= MaxQueueSize

\* drop-newest for drop-oldest: MAX(id) for MIN(id) (mutation)
DeleteNewest(rows) ==
    IF rows = {} THEN rows
    ELSE rows \ {CHOOSE r \in rows : \A t \in rows : r.id >= t.id}

\* add_message: DELETE ... WHERE id = (SELECT MIN(id) ...), a no-op on an
\* empty table
DeleteOldest(rows) == IF rows = {} THEN rows ELSE rows \ {MinRow(rows)}

\* the table created afresh at every start (mutation)
init_db_recreate(rows) == {}

\* OfflineQueue._init_db: CREATE TABLE IF NOT EXISTS keeps the rows of an
\* existing file
init_db(rows) == rows

\* OfflineQueue.add_message: count, drop the oldest row when full, insert
\* with the next AUTOINCREMENT id.  One SQLite transaction: no other
\* connection writes between the DELETE and the INSERT, and the only other
\* writer (clear_queue) empties the table, after which the count is 0.
add_message(rows, id, msg) ==
    IF QueueFull(Cardinality(rows))
    THEN DeleteOldest(rows) \cup {Row(id, msg)}
    ELSE rows \cup {Row(id, msg)}

RECURSIVE OrderByIdAsc(_)
OrderByIdAsc(rows) ==
    IF rows = {} THEN <<>>
    ELSE LET m == MinRow(rows) IN <<m>> \o OrderByIdAsc(rows \ {m})

RECURSIVE OrderByIdDesc(_)
OrderByIdDesc(rows) ==
    IF rows = {} THEN <<>>
    ELSE LET m == MinRow(rows) IN OrderByIdDesc(rows \ {m}) \o <<m>>

\* ORDER BY id DESC for ASC (mutation)
get_all_messages_desc(rows) == OrderByIdDesc(rows)

\* OfflineQueue.get_all_messages: SELECT ... ORDER BY id ASC
get_all_messages(rows) == OrderByIdAsc(rows)

\* OfflineQueue.clear_queue: DELETE FROM messages
clear_queue(rows) == {}

\* OfflineQueue.get_queue_size
get_queue_size(rows) == Cardinality(rows)

Range(s) == {s[k] : k \in 1..Len(s)}

\* ------------------------------------------------------------------- Init

\* The outbox file outlives the process (CREATE TABLE IF NOT EXISTS): a
\* device starts with whatever an earlier run left queued.
InitSizes == {0, MaxQueueSize - 1}

\* the worker threads _start_workers submits
Workers == 1..NUM_WORKER_THREADS

\* messages the broker delivers over the whole behaviour: one more than the
\* ring can hold
MaxArrivals == MAX_QUEUE_SIZE + 1

\* a burst of twice the ring's capacity
BurstSize == 2 * MAX_QUEUE_SIZE

\* time.time() when the process starts: far enough into the epoch for the
\* first connect() to pass the test against last_connection_attempt = 0
StartTime == MaxReconnectInterval

NoMessage == [n |-> 0]
NothingTaken == [n |-> 0, kind |-> "none", device |-> "none"]
NoPayload == [none |-> TRUE]
NoPoint == [measurement |-> "none"]

\* DeviceSimulator.__init__: the connection state
BackoffInit ==
    /\ reconnect_interval = InitialReconnectInterval
    /\ last_connection_attempt = 0
    /\ now = StartTime
    /\ bpc = "run"
    /\ looping = FALSE
    /\ bread = 0
    /\ npc = "idle"
    /\ nread = 0

\* MQTTCollector.__init__: the ring, the counters, the workers started
CollectorInit ==
    /\ message_queue = <<>>
    /\ shutdown_event = FALSE
    /\ message_count = 0
    /\ error_count = 0
    /\ processed_count = 0
    /\ cpc = "loop"
    /\ cmsg = NoMessage
    /\ waited = 0
    /\ wpc = [w \in Workers |-> "check"]
    /\ wmsg = [w \in Workers |-> NothingTaken]
    /\ write_api_closed = FALSE
    /\ arrivals = 0
    /\ written = <<>>
    /\ dropped = 0
    /\ calls = [n \in 1..BurstSize |-> 0]

ShaperInit ==
    /\ payload = NoPayload
    /\ point = NoPoint

\* NetworkFailureTester.__init__: device_ids = vehicle_001 .. vehicle_N
\* (here 1 .. N), no process started yet
device_ids == 1..NumDevices

\* no scenario has returned yet
NoResults == [none |-> TRUE]

HarnessInit ==
    /\ device_processes = {}
    /\ qsize = [d \in device_ids |-> 0]
    /\ hpc = "new"
    /\ victims = {}
    /\ scenarios = 0
    /\ polls = 0
    /\ alive = {}
    /\ processes = {}
    /\ to_start = {}
    /\ disconnect_percent = 0
    /\ remaining = {}
    /\ outage = 0
    /\ initial_sizes = [d \in device_ids |-> 0]
    /\ flush_results = NoResults
    /\ result = NoResults

\* the batches of the writer model
Batches == 1..MaxBatches

\* the writer before its first batch
RetryInit ==
    /\ batch = 0
    /\ wstate = "idle"
    /\ retries = 0
    /\ delays = <<>>
    /\ submissions = [b \in Batches |-> 0]
    /\ outcome = [b \in Batches |-> "none"]

\* DetectionLabelSimulator.__init__
DetectionInit ==
    /\ current_label = "normal"
    /\ label_duration = 10
    /\ reported = "none"
    /\ label_ticks = 0

Init ==
    /\ BackoffInit
    /\ CollectorInit
    /\ ShaperInit
    /\ HarnessInit
    /\ io_errors = 0
    /\ errors_logged = 0
    /\ pending = 0
    /\ age = 0
    /\ rejected_batches = 0
    /\ flushed_by = "none"
    /\ RetryInit
    /\ DetectionInit
    /\ \E n \in InitSizes :
          /\ messages = {Row(k, k) : k \in 1..n}
          /\ seq = n
          /\ produced = n
          /\ bootIds = 1..n
    /\ connected = FALSE
    /\ mainpc = "start"
    /\ cur = 0
    /\ netpc = "idle"
    /\ snapshot = <<>>
    /\ idx = 0
    /\ flushed = 0
    /\ failed = 0
    /\ link = "down"
    /\ evt = "none"
    /\ handed = {}
    /\ evicted = {}
    /\ direct = FALSE
    /\ queued = FALSE
    /\ lastPub = 0
    /\ firstReplay = "none"
    /\ ticks = 0
    /\ calm = FALSE
    /\ fails = 0
    /\ drops = 0
    /\ restarts = 0

\* ------------------------------------------------------------ environment

\* what client.publish can return: success needs the session, NO_CONN its
\* absence; failures are drawn from a budget
Results ==
    {rc \in PublishResults :
        /\ rc = "SUCCESS" => link = "up"
        /\ rc = "NO_CONN" => link = "down"
        /\ rc # "SUCCESS" => MayFault}

\* the broker accepts a connection (connect() of the main thread or the
\* library's automatic reconnect): CONNACK with rc = 0 waits for the network
\* thread
LinkUp ==
    /\ link = "down"
    /\ evt = "none"
    /\ link' = "up"
    /\ evt' = "connack"
    /\ UNCHANGED <<dbVars, connected, mainVars, netVars, drops, calm, produced,
                   ticks, handed, evicted, bootIds, fails, restarts>>
    /\ UNCHANGED besideOutbox

\* the transport loses the session: the disconnect callback waits for the
\* network thread
LinkDrop ==
    /\ link = "up"
    /\ evt = "none"
    /\ MayFault
    /\ link' = "down"
    /\ evt' = "disc"
    /\ drops' = drops + 1
    /\ UNCHANGED <<dbVars, connected, mainVars, netVars, calm, produced, ticks,
                   handed, evicted, bootIds, fails, restarts>>
    /\ UNCHANGED besideOutbox

\* --------------------------------------------------------- the main thread

\* run(): `if not self.connected: self.connect()` while the session is in
\* fact up (the flag was cleared after a failed publish): client.connect()
\* opens the session anew and its CONNACK waits for the network thread.
\* connect() returns without an attempt when the last one is too recent, so
\* the step may as well not happen.
Connect ==
    /\ mainpc \in {"start", "sleep"}
    /\ ~connected
    /\ link = "up"
    /\ evt = "none"
    /\ evt' = "connack"
    /\ UNCHANGED <<dbVars, connected, mainVars, netVars, link, drops, calm,
                   produced, ticks, handed, evicted, bootIds, fails, restarts>>
    /\ UNCHANGED besideOutbox

\* run(): one iteration produces a sample; _publish_device_data serialises it
\* and reads self.connected
Tick ==
    /\ mainpc \in {"start", "sleep"}
    /\ ticks < MaxTicks
    /\ ticks' = ticks + 1
    /\ produced' = produced + 1
    /\ cur' = produced + 1
    /\ direct' = FALSE
    /\ queued' = FALSE
    /\ mainpc' = IF connected THEN "publish" ELSE "add_else"
    /\ UNCHANGED <<dbVars, connected, netVars, envVars, handed, evicted,
                   bootIds, fails, restarts>>
    /\ UNCHANGED besideOutbox

\* the samples of the history: those that carry a number (see SteadyTick)
Numbered(sample) == {sample} \ {0}

\* the generic failure branch forgetting to queue the message (mutation)
AfterPublishNoQueue(rc) ==
    CASE rc = "SUCCESS" -> "sleep"
      [] rc = "NO_CONN" -> "add"
      [] rc = "OTHER"   -> "sleep"
      [] rc = "EXC"     -> "add_exc"

\* _publish_device_data, connected branch: where the code goes after
\* client.publish returned rc (or raised)
AfterPublish(rc) ==
    CASE rc = "SUCCESS" -> "sleep"
      [] rc = "NO_CONN" -> "add"
      [] rc = "OTHER"   -> "add"
      [] rc = "EXC"     -> "add_exc"

\* _publish_device_data, connected branch: client.publish(self.topic, ...)
\* and the four ways the code goes on
DirectPublish ==
    /\ mainpc = "publish"
    /\ \E rc \in Results :
          /\ fails' = IF rc = "SUCCESS" THEN fails ELSE fails + 1
          /\ handed' = IF rc = "SUCCESS" THEN handed \cup Numbered(cur) ELSE handed
          /\ direct' = (rc = "SUCCESS")
          /\ connected' = IF rc = "NO_CONN" THEN FALSE ELSE connected
          /\ mainpc' = AfterPublish(rc)
    /\ UNCHANGED <<dbVars, cur, queued, netVars, envVars, produced, ticks,
                   evicted, bootIds, restarts>>
    /\ UNCHANGED besideOutbox

\* the effect of self.offline_queue.add_message(self.topic, message, qos=1)
Enqueue ==
    /\ messages' = add_message(messages, seq + 1, cur)
    /\ seq' = seq + 1
    /\ evicted' = evicted \cup (messages \ messages')
    /\ queued' = TRUE

\* _publish_device_data: add_message after NO_CONN or after another result
\* code ("add", inside the try), or when self.connected was false
\* ("add_else", outside it)
AddMessage ==
    /\ mainpc \in {"add", "add_else"}
    /\ Enqueue
    /\ mainpc' = "sleep"
    /\ UNCHANGED <<connected, cur, direct, netVars, envVars, produced, ticks,
                   handed, bootIds, fails, restarts>>
    /\ UNCHANGED besideOutbox

\* _publish_device_data, except branch: add_message ...
AddMessageExc ==
    /\ mainpc = "add_exc"
    /\ Enqueue
    /\ mainpc' = "unset"
    /\ UNCHANGED <<connected, cur, direct, netVars, envVars, produced, ticks,
                   handed, bootIds, fails, restarts>>
    /\ UNCHANGED besideOutbox

\* ... and then self.connected = False
UnsetConnected ==
    /\ mainpc = "unset"
    /\ connected' = FALSE
    /\ mainpc' = "sleep"
    /\ UNCHANGED <<dbVars, cur, direct, queued, netVars, envVars, produced,
                   ticks, handed, evicted, bootIds, fails, restarts>>
    /\ UNCHANGED besideOutbox

\* ------------------------------------------------------ the network thread

\* _on_connect with rc == 0: self.connected = True, then _flush_queue()
OnConnect ==
    /\ netpc = "idle"
    /\ evt = "connack"
    /\ evt' = "none"
    /\ connected' = TRUE
    /\ netpc' = "flush_get"
    /\ UNCHANGED <<dbVars, mainVars, snapshot, idx, flushed, failed, lastPub,
                   firstReplay, link, drops, calm, produced, ticks, handed,
                   evicted, bootIds, fails, restarts>>
    /\ UNCHANGED besideOutbox

\* _on_disconnect: self.connected = False
OnDisconnect ==
    /\ netpc = "idle"
    /\ evt = "disc"
    /\ evt' = "none"
    /\ connected' = FALSE
    /\ UNCHANGED <<dbVars, mainVars, netVars, link, drops, calm, produced,
                   ticks, handed, evicted, bootIds, fails, restarts>>
    /\ UNCHANGED besideOutbox

\* _flush_queue: messages = self.offline_queue.get_all_messages(); nothing
\* more when the list is empty
FlushGet ==
    /\ netpc = "flush_get"
    /\ snapshot' = get_all_messages(messages)
    /\ idx' = IF messages = {} THEN 0 ELSE 1
    /\ flushed' = 0
    /\ failed' = 0
    /\ lastPub' = 0
    /\ netpc' = IF messages = {} THEN "idle" ELSE "flush_loop"
    /\ firstReplay' = IF firstReplay = "none"
                      THEN (IF messages = {} THEN "over" ELSE "running")
                      ELSE firstReplay
    /\ UNCHANGED <<dbVars, connected, mainVars, envVars, produced, ticks,
                   handed, evicted, bootIds, fails, restarts>>
    /\ UNCHANGED besideOutbox

\* _flush_queue: one iteration of the for loop.  It breaks when
\* self.connected is false; otherwise it publishes snapshot[idx] and counts
\* the result (a failure does not end the loop).
FlushPublish ==
    /\ netpc = "flush_loop"
    /\ idx <= Len(snapshot)
    /\ IF ~connected
       THEN /\ netpc' = "flush_end"
            /\ firstReplay' = IF firstReplay = "running" THEN "over" ELSE firstReplay
            /\ UNCHANGED <<idx, flushed, failed, lastPub, handed, fails>>
       ELSE /\ \E rc \in Results :
                  /\ fails' = IF rc = "SUCCESS" THEN fails ELSE fails + 1
                  /\ handed' = IF rc = "SUCCESS"
                               THEN handed \cup {snapshot[idx].msg} ELSE handed
                  /\ flushed' = IF rc = "SUCCESS" THEN flushed + 1 ELSE flushed
                  /\ failed' = IF rc = "SUCCESS" THEN failed ELSE failed + 1
            /\ lastPub' = snapshot[idx].id
            /\ idx' = idx + 1
            /\ netpc' = IF idx = Len(snapshot) THEN "flush_end" ELSE "flush_loop"
            /\ firstReplay' = IF firstReplay = "running" /\ idx = Len(snapshot)
                              THEN "over" ELSE firstReplay
    /\ UNCHANGED <<dbVars, connected, mainVars, snapshot, envVars, produced,
                   ticks, evicted, bootIds, restarts>>
    /\ UNCHANGED besideOutbox

\* a replay that clears as soon as one publish succeeded (mutation)
ShouldClearAnyFlushed(nflushed, nfailed, nmessages, conn) == nflushed > 0

\* _flush_queue: the test that decides whether the queue is cleared
ShouldClear(nflushed, nfailed, nmessages, conn) ==
    /\ nflushed > 0
    /\ conn
    /\ \/ nfailed = 0
       \/ nflushed * FlushRatioDen > FlushRatioNum * nmessages

\* _flush_queue after the loop: clear_queue() or the "partially flushed"
\* warning
FlushEnd ==
    /\ netpc = "flush_end"
    /\ messages' = IF ShouldClear(flushed, failed, Len(snapshot), connected)
                   THEN clear_queue(messages) ELSE messages
    /\ netpc' = "idle"
    /\ snapshot' = <<>>
    /\ idx' = 0
    /\ flushed' = 0
    /\ failed' = 0
    /\ lastPub' = 0
    /\ UNCHANGED <<seq, connected, mainVars, firstReplay, envVars, produced,
                   ticks, handed, evicted, bootIds, fails, restarts>>
    /\ UNCHANGED besideOutbox

\* ------------------------------------------------------------ the process

\* The process is terminated (the harness's _stop_devices) and a new one is
\* started for the same device id: DeviceSimulator.__init__ and
\* OfflineQueue._init_db run again on the same file.
Restart ==
    /\ MayFault
    /\ restarts' = restarts + 1
    /\ connected' = FALSE
    /\ mainpc' = "start"
    /\ cur' = 0
    /\ direct' = FALSE
    /\ queued' = FALSE
    /\ netpc' = "idle"
    /\ snapshot' = <<>>
    /\ idx' = 0
    /\ flushed' = 0
    /\ failed' = 0
    /\ lastPub' = 0
    /\ firstReplay' = "none"
    /\ link' = "down"
    /\ evt' = "none"
    /\ messages' = init_db(messages)
    /\ bootIds' = Ids(messages')
    /\ UNCHANGED <<seq, drops, calm, produced, ticks, handed, evicted, fails>>
    /\ UNCHANGED besideOutbox

Next ==
    \/ Connect
    \/ Tick
    \/ DirectPublish
    \/ AddMessage
    \/ AddMessageExc
    \/ UnsetConnected
    \/ LinkUp
    \/ LinkDrop
    \/ OnConnect
    \/ OnDisconnect
    \/ FlushGet
    \/ FlushPublish
    \/ FlushEnd
    \/ Restart

Spec == Init /\ [][Next]_vars

\* ---------------------------------------------------------- storage errors
\* sqlite3.connect, execute or commit of add_message raising sqlite3.Error
\* (disk full, file locked or damaged): nothing is inserted.

\* the failure counters DeviceSimulator and OfflineQueue keep: their
\* __init__ methods set none
DeviceCounters == {}

besideStorage ==
    <<backoffVars, collectorVars, shaperVars, harnessVars, writerVars,
      retryVars, detectionVars>>

\* add_message raises inside the try of _publish_device_data (after NO_CONN
\* or another result code): `except Exception` logs the error and goes on
\* to its own add_message
AddRaisesInTry ==
    /\ mainpc = "add"
    /\ io_errors < MaxIoErrors
    /\ io_errors' = io_errors + 1
    /\ errors_logged' = errors_logged + 1
    /\ mainpc' = "add_exc"
    /\ UNCHANGED <<dbVars, connected, cur, direct, queued, netVars, envVars,
                   produced, handed, evicted, bootIds, ticks, fails, restarts,
                   besideStorage>>

\* add_message raises in the except branch or in the else branch of
\* _publish_device_data: the exception leaves the method (self.connected =
\* False of the except branch does not run); run() catches it, logs it,
\* sleeps publish_interval and goes on with the next iteration
AddRaisesToRun ==
    /\ mainpc \in {"add_exc", "add_else"}
    /\ io_errors < MaxIoErrors
    /\ io_errors' = io_errors + 1
    /\ errors_logged' = errors_logged + 1
    /\ mainpc' = "sleep"
    /\ UNCHANGED <<dbVars, connected, cur, direct, queued, netVars, envVars,
                   produced, handed, evicted, bootIds, ticks, fails, restarts,
                   besideStorage>>

StorageNext ==
    \/ Next
    \/ AddRaisesInTry
    \/ AddRaisesToRun

StorageSpec == Init /\ [][StorageNext]_vars

\* ---------------------------------------------------------------- liveness

\* From here on the connection is not dropped, every publish succeeds and
\* the process is not stopped.
Calm ==
    /\ ~calm
    /\ calm' = TRUE
    /\ UNCHANGED <<dbVars, connected, mainVars, netVars, link, evt, drops,
                   produced, ticks, handed, evicted, bootIds, fails, restarts>>
    /\ UNCHANGED besideOutbox

\* run() never leaves its loop.  Past MaxTicks the samples are not numbered
\* any more (sample 0, left out of the history), and only the ticks of a
\* connected device in the calm phase are followed: their direct publish
\* succeeds and nothing is appended.
SteadyTick ==
    /\ mainpc \in {"start", "sleep"}
    /\ ticks = MaxTicks
    /\ calm
    /\ connected
    /\ cur' = 0
    /\ direct' = FALSE
    /\ queued' = FALSE
    /\ mainpc' = "publish"
    /\ UNCHANGED <<dbVars, connected, netVars, envVars, produced, ticks, handed,
                   evicted, bootIds, fails, restarts>>
    /\ UNCHANGED besideOutbox

MainThread ==
    \/ Connect
    \/ Tick
    \/ SteadyTick
    \/ DirectPublish
    \/ AddMessage
    \/ AddMessageExc
    \/ UnsetConnected

NetworkThread == OnConnect \/ OnDisconnect \/ FlushGet \/ FlushPublish \/ FlushEnd

FairInit == Init /\ messages = {}

FairNext ==
    \/ MainThread
    \/ NetworkThread
    \/ LinkUp
    \/ LinkDrop
    \/ Calm

\* Both threads keep running: run() loops with a sleep, the library's
\* network loop delivers every pending callback.
FairSpec ==
    /\ FairInit
    /\ [][FairNext]_vars
    /\ WF_vars(MainThread)
    /\ WF_vars(NetworkThread)

\* the start of a system whose device has nothing queued
EmptyOutboxInit == Init /\ messages = {}

\* =============================================================== collector
\* MQTTCollector (src/collector/mqtt_collector.py): the main thread runs
\* loop_forever, hence every _on_message callback, and later _shutdown; the
\* worker threads take messages from the ring and process them.

\* the devices that publish (the workers' interleavings, not the number of
\* devices, are what the collector's properties depend on)
Devices == {"d1"}

\* what a message's payload can be, as far as _process_message tells them
\* apart: a JSON object with a device_id, a JSON object without one, bytes
\* that are UTF-8 but not JSON, bytes that are not UTF-8
Inputs ==
    {[kind |-> "point", device |-> d] : d \in Devices}
    \cup {[kind |-> k, device |-> "none"] :
             k \in {"no_device_id", "bad_json", "bad_utf8"}}

\* the message_data dict _on_message builds.  Nothing reads the payload
\* while the message is in the ring, so the ring carries the delivery
\* number only and the payload is drawn when a worker takes the message.
Message(n) == [n |-> n]

\* message_data in the hands of a worker
Taken(m, in) == [n |-> m.n, kind |-> in.kind, device |-> in.device]

\* the record write_api.write is given: the point's device tag
Written(m) == [device |-> m.device, n |-> m.n]

\* a ring that never reports Full (mutation)
put_nowait_unbounded(q, m) == [queue |-> Append(q, m), full |-> FALSE]

\* a ring that makes room by dropping its oldest message (mutation)
put_nowait_evicting(q, m) ==
    IF Len(q) >= MAX_QUEUE_SIZE
    THEN [queue |-> Append(Tail(q), m), full |-> TRUE]
    ELSE [queue |-> Append(q, m), full |-> FALSE]

\* a ring that reports Full one message early (mutation)
put_nowait_short(q, m) ==
    IF Len(q) >= MAX_QUEUE_SIZE - 1
    THEN [queue |-> q, full |-> TRUE]
    ELSE [queue |-> Append(q, m), full |-> FALSE]

\* Queue(maxsize=MAX_QUEUE_SIZE).put_nowait: raises Full when the queue
\* holds maxsize items, appends otherwise; atomic under the queue's mutex
put_nowait(q, m) ==
    IF Len(q) >= MAX_QUEUE_SIZE
    THEN [queue |-> q, full |-> TRUE]
    ELSE [queue |-> Append(q, m), full |-> FALSE]

\* _on_message: the broker delivers a message (one of at most `limit`);
\* put_nowait stores it or raises Full
Deliver(limit) ==
    /\ cpc = "loop"
    /\ arrivals < limit
    /\ LET m == Message(arrivals + 1)
           r == put_nowait(message_queue, m)
       IN  /\ message_queue' = r.queue
           /\ cpc' = IF r.full THEN "full" ELSE "loop"
           /\ cmsg' = IF r.full THEN m ELSE NoMessage
    /\ arrivals' = arrivals + 1
    /\ UNCHANGED <<shutdown_event, counterVars, waited, wpc, wmsg,
                   write_api_closed, written, dropped>>
    /\ UNCHANGED <<calls, besideCollector>>

\* the deliveries of CollectorSpec
OnMessage == Deliver(MaxArrivals)

\* _on_message, except Full: error_count += 1 under count_lock, a warning,
\* and the callback returns
OnMessageFull ==
    /\ cpc = "full"
    /\ error_count' = error_count + 1
    /\ dropped' = dropped + 1
    /\ cpc' = "loop"
    /\ cmsg' = NoMessage
    /\ UNCHANGED <<message_queue, shutdown_event, message_count,
                   processed_count, waited, wpc, wmsg, write_api_closed,
                   arrivals, written>>
    /\ UNCHANGED <<calls, besideCollector>>

\* _process_message: json.loads(message_data['payload'].decode())
decode(m) ==
    CASE m.kind = "bad_utf8" -> "UnicodeDecodeError"
      [] m.kind = "bad_json" -> "JSONDecodeError"
      [] OTHER               -> "object"

\* _process_message: the branch a message takes
ProcessBranch(m) ==
    CASE decode(m) = "JSONDecodeError"    -> "except_json"
      [] decode(m) = "UnicodeDecodeError" -> "except_other"
      [] m.kind = "no_device_id"          -> "return_false"
      [] OTHER                            -> "write"

\* only the JSON handler counting (mutation)
CountsErrorJsonOnly(branch) == branch = "except_json"

\* _process_message: the branches that run self.error_count += 1
CountsError(branch) == branch \in {"except_json", "except_other"}

\* a counter going back (mutation)
Decrement(n) == n - 1

\* with self.count_lock: counter += 1
Increment(n) == n + 1

\* _worker_thread: while not self.shutdown_event.is_set()
WorkerCheck(w) ==
    /\ wpc[w] = "check"
    /\ wpc' = [wpc EXCEPT ![w] = IF shutdown_event THEN "exited" ELSE "get"]
    /\ UNCHANGED <<message_queue, shutdown_event, counterVars, cpc, cmsg,
                   waited, wmsg, write_api_closed, arrivals, written, dropped>>
    /\ UNCHANGED <<calls, besideCollector>>

\* a worker that leaves its loop when the ring was empty for a second
\* (mutation)
OnEmptyBreak == "exited"

\* _worker_thread, `except Empty: continue`: back to the test of the loop
OnEmpty == "check"

\* _worker_thread: self.message_queue.get(timeout=1.0) returns the oldest
\* message, or raises Empty after a second on an empty ring (continue)
WorkerGet(w) ==
    /\ wpc[w] = "get"
    /\ IF message_queue # <<>>
       THEN /\ \E in \in Inputs :
                  wmsg' = [wmsg EXCEPT ![w] = Taken(Head(message_queue), in)]
            /\ message_queue' = Tail(message_queue)
            /\ wpc' = [wpc EXCEPT ![w] = "process"]
       ELSE /\ wpc' = [wpc EXCEPT ![w] = OnEmpty]
            /\ UNCHANGED <<wmsg, message_queue>>
    /\ UNCHANGED <<shutdown_event, counterVars, cpc, cmsg, waited,
                   write_api_closed, arrivals, written, dropped>>
    /\ UNCHANGED <<calls, besideCollector>>

\* _process_message up to its first shared effect: write_api.write for a
\* payload with a device_id, `return False` for one without, error_count
\* += 1 in either except branch.  A message that was not written is done
\* with here: the worker calls task_done and returns to its loop.
WorkerProcess(w) ==
    /\ wpc[w] = "process"
    /\ LET b == ProcessBranch(wmsg[w])
       IN  /\ written' = IF b = "write" THEN Append(written, Written(wmsg[w]))
                         ELSE written
           /\ error_count' = IF CountsError(b) THEN Increment(error_count)
                             ELSE error_count
           /\ wpc' = [wpc EXCEPT ![w] = IF b = "write" THEN "count" ELSE "check"]
           /\ wmsg' = [wmsg EXCEPT ![w] = IF b = "write" THEN @ ELSE NothingTaken]
    /\ calls' = [calls EXCEPT ![wmsg[w].n] = @ + 1]
    /\ UNCHANGED <<message_queue, shutdown_event, message_count,
                   processed_count, cpc, cmsg, waited, write_api_closed,
                   arrivals, dropped>>
    /\ UNCHANGED besideCollector

\* a count_lock block that leaves message_count alone (mutation)
CountedProcessedOnly(counts) ==
    [counts EXCEPT !.processed_count = Increment(@)]

\* _process_message, the block under count_lock after write_api.write:
\* self.processed_count += 1; self.message_count += 1
Counted(counts) ==
    [processed_count |-> Increment(counts.processed_count),
     message_count |-> Increment(counts.message_count)]

\* _process_message after write_api.write: processed_count += 1 and
\* message_count += 1 under count_lock; then task_done and the loop again
WorkerCount(w) ==
    /\ wpc[w] = "count"
    /\ LET c == Counted([processed_count |-> processed_count,
                         message_count |-> message_count])
       IN  /\ processed_count' = c.processed_count
           /\ message_count' = c.message_count
    /\ wpc' = [wpc EXCEPT ![w] = "check"]
    /\ wmsg' = [wmsg EXCEPT ![w] = NothingTaken]
    /\ UNCHANGED <<message_queue, shutdown_event, error_count, cpc, cmsg,
                   waited, write_api_closed, arrivals, written, dropped>>
    /\ UNCHANGED <<calls, besideCollector>>

\* start(): KeyboardInterrupt, or an exception out of connect() or
\* loop_forever(), ends the network loop; _shutdown is called
Interrupt ==
    /\ cpc = "loop"
    /\ cpc' = "shutdown"
    /\ UNCHANGED <<message_queue, shutdown_event, counterVars, cmsg, waited,
                   wpc, wmsg, write_api_closed, arrivals, written, dropped>>
    /\ UNCHANGED <<calls, besideCollector>>

\* _shutdown: self.shutdown_event.set(), then loop_stop() and disconnect()
ShutdownSet ==
    /\ cpc = "shutdown"
    /\ shutdown_event' = TRUE
    /\ cpc' = "wait"
    /\ UNCHANGED <<message_queue, counterVars, cmsg, waited, wpc, wmsg,
                   write_api_closed, arrivals, written, dropped>>
    /\ UNCHANGED <<calls, besideCollector>>

\* _shutdown: for _ in range(30): if self.message_queue.empty(): break;
\* time.sleep(1)
ShutdownWait ==
    /\ cpc = "wait"
    /\ IF message_queue = <<>> \/ waited = GraceIterations
       THEN cpc' = "executor" /\ waited' = waited
       ELSE cpc' = cpc /\ waited' = waited + 1
    /\ UNCHANGED <<message_queue, shutdown_event, counterVars, cmsg, wpc,
                   wmsg, write_api_closed, arrivals, written, dropped>>
    /\ UNCHANGED <<calls, besideCollector>>

\* concurrent.futures.Executor.shutdown(self, wait=True, *,
\* cancel_futures=False): the keyword arguments it accepts
ShutdownKeywords == {"wait", "cancel_futures"}

\* _shutdown: self.executor.shutdown(wait=True, timeout=10), which is
\* outside any try.  A call with a keyword the method does not have raises
\* TypeError: the exception leaves _shutdown and start(), and the lines
\* after the call (write_api.close(), influx_client.close(), the
\* statistics) do not run.  An accepted call waits for the workers to
\* exit, and write_api.close() follows.
ExecutorShutdown ==
    /\ cpc = "executor"
    /\ IF {"wait", "timeout"} \subseteq ShutdownKeywords
       THEN /\ \A w \in Workers : wpc[w] = "exited"
            /\ write_api_closed' = TRUE
            /\ cpc' = "ended"
       ELSE /\ write_api_closed' = write_api_closed
            /\ cpc' = "raised"
    /\ UNCHANGED <<message_queue, shutdown_event, counterVars, cmsg, waited,
                   wpc, wmsg, arrivals, written, dropped>>
    /\ UNCHANGED <<calls, besideCollector>>

CollectorNext ==
    \/ OnMessage
    \/ OnMessageFull
    \/ Interrupt
    \/ ShutdownSet
    \/ ShutdownWait
    \/ ExecutorShutdown
    \/ \E w \in Workers : WorkerCheck(w)
    \/ \E w \in Workers : WorkerGet(w)
    \/ \E w \in Workers : WorkerProcess(w)
    \/ \E w \in Workers : WorkerCount(w)

CollectorSpec == EmptyOutboxInit /\ [][CollectorNext]_vars

\* ---- the collector in service: a burst arrives and there is no shutdown

\* the deliveries of a burst
BurstMessage == Deliver(BurstSize)

\* one step of worker w's loop
WorkerStep(w) ==
    \/ WorkerCheck(w)
    \/ WorkerGet(w)
    \/ WorkerProcess(w)
    \/ WorkerCount(w)

RunNext ==
    \/ BurstMessage
    \/ OnMessageFull
    \/ \E w \in Workers : WorkerCheck(w)
    \/ \E w \in Workers : WorkerGet(w)
    \/ \E w \in Workers : WorkerProcess(w)
    \/ \E w \in Workers : WorkerCount(w)

RunSpec == EmptyOutboxInit /\ [][RunNext]_vars

\* the collector in service with the deliveries of CollectorSpec
ServiceNext ==
    \/ OnMessage
    \/ OnMessageFull
    \/ \E w \in Workers : WorkerCheck(w)
    \/ \E w \in Workers : WorkerGet(w)
    \/ \E w \in Workers : WorkerProcess(w)
    \/ \E w \in Workers : WorkerCount(w)

\* every worker is a thread of the pool whose loop has no unbounded wait
\* (get has a timeout): the scheduler lets each of them go on
FairRunSpec ==
    /\ EmptyOutboxInit
    /\ [][ServiceNext]_vars
    /\ \A w \in Workers : WF_vars(WorkerStep(w))

\* ================================================================== shaper
\* The point shaper of _process_message: from the decoded JSON object to
\* the fields of the InfluxDB Point.

\* A JSON number: its JSON type and its value as whole part and first
\* decimal (non-negative values).
Num(t, whole, frac) == [t |-> t, whole |-> whole, frac |-> frac]

\* the value passed on with the type the JSON had (mutation)
float_as_is(x) == x

\* Python's float(x): the same value as a float
float(x) == Num("float", x.whole, x.frac)

\* Python's int(x): truncation, as an integer
int(x) == Num("int", x.whole, 0)

\* the literal 0 that dict.get(key, 0) falls back to
Zero == Num("int", 0, 0)

\* dict.get(key, default)
Get(d, key, default) == IF key \in DOMAIN d THEN d[key] ELSE default

NoKeys == [k \in {} |-> Zero]

\* a JSON object with the given keys, all bound to v
Object(keys, v) == [k \in keys |-> v]

\* Point("device_data").tag("device_id", device_id).tag("collector", "python")
\* ("none" stands for a point without detection_label tag)
NewPoint(device_id) ==
    [measurement |-> "device_data", device_id |-> device_id,
     detection_label |-> "none", fields |-> NoKeys]

\* point.tag("detection_label", value)
Tag(pt, value) == [pt EXCEPT !.detection_label = value]

\* point.field(name, value)
Field(pt, name, value) == [pt EXCEPT !.fields = (name :> value) @@ @]

\* if key in d: point = point.field(name, float(d[key]))
FloatIf(pt, d, key, name) ==
    IF key \in DOMAIN d THEN Field(pt, name, float(d[key])) ELSE pt

\* if key in d: point = point.field(name, int(d[key]))
IntIf(pt, d, key, name) ==
    IF key \in DOMAIN d THEN Field(pt, name, int(d[key])) ELSE pt

\* legacy nested format: telemetry.memory
NestedMemory(pt, t) ==
    IF "memory" \in DOMAIN t
    THEN LET memory == t["memory"]
             a == Field(pt, "memory_total", int(Get(memory, "total", Zero)))
             b == Field(a, "memory_used", int(Get(memory, "used", Zero)))
             c == Field(b, "memory_available",
                        int(Get(memory, "available", Zero)))
         IN  Field(c, "memory_percent", float(Get(memory, "percent", Zero)))
    ELSE pt

\* legacy nested format: telemetry.disk
NestedDisk(pt, t) ==
    IF "disk" \in DOMAIN t
    THEN LET disk == t["disk"]
             a == Field(pt, "disk_total", int(Get(disk, "total", Zero)))
             b == Field(a, "disk_used", int(Get(disk, "used", Zero)))
             c == Field(b, "disk_free", int(Get(disk, "free", Zero)))
         IN  Field(c, "disk_percent", float(Get(disk, "percent", Zero)))
    ELSE pt

\* legacy nested format: telemetry.network
NestedNetwork(pt, t) ==
    IF "network" \in DOMAIN t
    THEN LET network == t["network"]
             a == Field(pt, "network_bytes_sent",
                        int(Get(network, "bytes_sent", Zero)))
         IN  Field(a, "network_bytes_recv",
                   int(Get(network, "bytes_recv", Zero)))
    ELSE pt

\* the branch `if "telemetry" in payload`
Nested(pt, t) ==
    LET a == FloatIf(pt, t, "cpu_usage", "cpu_usage")
        b == FloatIf(a, t, "ram_usage", "ram_usage")
    IN  NestedNetwork(NestedDisk(NestedMemory(b, t), t), t)

\* the else branch: the fields read from the payload root
Flat(pt, p) ==
    LET a == FloatIf(pt, p, "cpu_usage", "cpu_usage")
        b == FloatIf(a, p, "ram_usage", "ram_usage")
        c == IntIf(b, p, "memory_total", "memory_total")
        d == IntIf(c, p, "memory_used", "memory_used")
        e == IntIf(d, p, "memory_available", "memory_available")
        f == FloatIf(e, p, "memory_percent", "memory_percent")
        g == IntIf(f, p, "disk_total", "disk_total")
        h == IntIf(g, p, "disk_used", "disk_used")
        i == IntIf(h, p, "disk_free", "disk_free")
        j == FloatIf(i, p, "disk_percent", "disk_percent")
        k == IntIf(j, p, "network_bytes_sent", "network_bytes_sent")
    IN  IntIf(k, p, "network_bytes_recv", "network_bytes_recv")

\* detection, nested or flat: the tag detection_label and the field
\* detection_confidence (the labels of the model are JSON strings, which
\* str() returns as they are)
Detection(pt, p) ==
    IF "detection" \in DOMAIN p
    THEN Field(Tag(pt, Get(p["detection"], "label", "unknown")),
               "detection_confidence",
               float(Get(p["detection"], "confidence", Num("float", 0, 0))))
    ELSE IF "detection_label" \in DOMAIN p
         THEN FloatIf(Tag(pt, p["detection_label"]), p,
                      "detection_confidence", "detection_confidence")
         ELSE pt

\* _process_message from Point("device_data") to the call of write_api.write
Shape(p, collector_receive_time) ==
    LET a == Field(NewPoint(p["device_id"]), "collector_receive_time",
                   float(collector_receive_time))
        b == FloatIf(a, p, "timestamp", "publish_timestamp")
        c == FloatIf(b, p, "speed", "speed")
        d == IF "telemetry" \in DOMAIN p THEN Nested(c, p["telemetry"])
             ELSE Flat(c, p)
    IN  Detection(d, p)

\* ---- the payloads the shaper is run on

\* the parts of a device's sample a payload may carry
Groups == {"timestamp", "speed", "cpu", "memory", "disk", "network",
           "detection"}

\* a JSON integer and a JSON float
JsonNumbers == {Num("int", 7, 0), Num("float", 7, 5)}

\* the root keys of the flat format, by part
FlatKeys(g) ==
    CASE g = "timestamp" -> {"timestamp"}
      [] g = "speed"     -> {"speed"}
      [] g = "cpu"       -> {"cpu_usage", "ram_usage"}
      [] g = "memory"    -> {"memory_total", "memory_used", "memory_available",
                             "memory_percent"}
      [] g = "disk"      -> {"disk_total", "disk_used", "disk_free",
                             "disk_percent"}
      [] g = "network"   -> {"network_bytes_sent", "network_bytes_recv"}
      [] g = "detection" -> {"detection_confidence"}

\* the keys of the nested objects of the legacy format
NestedKeys(g) ==
    CASE g = "memory"  -> {"total", "used", "available", "percent"}
      [] g = "disk"    -> {"total", "used", "free", "percent"}
      [] g = "network" -> {"bytes_sent", "bytes_recv"}

\* flat format; a sparse payload has a detection_label without confidence
FlatPayload(groups, v, sparse) ==
    ("device_id" :> "d1")
    @@ (IF "detection" \in groups THEN "detection_label" :> "car" ELSE NoKeys)
    @@ Object(UNION {FlatKeys(g) : g \in groups
                         \ (IF sparse THEN {"detection"} ELSE {})}, v)

\* the telemetry object of the legacy format; the nested objects of a
\* sparse payload are empty
Telemetry(groups, v, sparse) ==
    (IF "cpu" \in groups THEN Object(FlatKeys("cpu"), v) ELSE NoKeys)
    @@ [g \in groups \cap {"memory", "disk", "network"} |->
           IF sparse THEN NoKeys ELSE Object(NestedKeys(g), v)]

\* legacy nested format
NestedPayload(groups, v, sparse) ==
    ("device_id" :> "d1")
    @@ Object(UNION {FlatKeys(g) : g \in groups \cap {"timestamp", "speed"}}, v)
    @@ ("telemetry" :> Telemetry(groups, v, sparse))
    @@ (IF "detection" \in groups
        THEN "detection" :> (("label" :> "car")
                             @@ (IF sparse THEN NoKeys ELSE "confidence" :> v))
        ELSE NoKeys)

Decoded == "device_id" \in DOMAIN payload

\* json.loads(...) returns an object with a device_id
Decode ==
    /\ ~Decoded
    /\ \E groups \in SUBSET Groups, v \in JsonNumbers, sparse \in BOOLEAN :
          \/ payload' = FlatPayload(groups, v, sparse)
          \/ payload' = NestedPayload(groups, v, sparse)
    /\ UNCHANGED <<point, outboxVars, backoffVars, collectorVars, toolVars>>

\* _process_message builds the point; collector_receive_time is the float
\* time.time() returned
ShapePoint ==
    /\ Decoded
    /\ point.measurement = "none"
    /\ point' = Shape(payload, Num("float", 7, 5))
    /\ UNCHANGED <<payload, outboxVars, backoffVars, collectorVars, toolVars>>

ShaperNext == Decode \/ ShapePoint

ShaperSpec == EmptyOutboxInit /\ [][ShaperNext]_vars

\* ================================================================= backoff
\* DeviceSimulator.connect (main thread, called by run() while
\* self.connected is false) and _on_connect (network thread): the reconnect
\* interval.  The outbox is left out: _flush_queue does not touch the
\* interval.

\* what the outbox, the collector and the shaper own, minus the two fields
\* the connection code shares with the outbox model
besideBackoff ==
    <<dbVars, mainVars, netVars, link, drops, calm, produced, handed, evicted,
      bootIds, ticks, fails, restarts, collectorVars, shaperVars, toolVars>>

Min(a, b) == IF a < b THEN a ELSE b

\* a backoff without the cap (mutation)
NextIntervalUncapped(interval) == interval * BackoffFactor

\* min(self.reconnect_interval * 2, 120)
NextInterval(interval) == Min(interval * BackoffFactor, MaxReconnectInterval)

\* a gate that waits the initial interval whatever the backoff (mutation)
TooSoonInitial(current_time, last, interval) ==
    current_time - last < InitialReconnectInterval

\* connect(): current_time - self.last_connection_attempt <
\* self.reconnect_interval
TooSoon(current_time, last, interval) == current_time - last < interval

\* the result code of the CONNACK that answers a CONNECT packet: 0, or one
\* of the refusals 1..5
Connacks == {"connack", "refused"}

\* time passes (the sleeps of run() and connect())
Advance ==
    /\ now < StartTime + MaxElapsed
    /\ now' = now + 1
    /\ UNCHANGED <<reconnect_interval, last_connection_attempt, bpc, looping,
                   bread, npc, nread, connected, evt, besideBackoff>>

\* run(): `if not self.connected: self.connect()`; connect() returns at
\* once when the last attempt is too recent, else it records the attempt
ConnectAttempt ==
    /\ bpc = "run"
    /\ ~connected
    /\ ~TooSoon(now, last_connection_attempt, reconnect_interval)
    /\ last_connection_attempt' = now
    /\ bpc' = "client_connect"
    /\ UNCHANGED <<reconnect_interval, now, looping, bread, npc, nread,
                   connected, evt, besideBackoff>>

\* connect(): self.client.connect(...) either raises (the except branch
\* starts with self.connected = False and reads the interval), or sends
\* CONNECT, after which loop_start() runs and the broker's CONNACK arrives
ClientConnect ==
    /\ bpc = "client_connect"
    /\ \/ /\ connected' = FALSE
          /\ bread' = reconnect_interval
          /\ bpc' = "except_store"
          /\ UNCHANGED <<evt, looping>>
       \/ /\ evt' \in Connacks
          /\ looping' = TRUE
          /\ bpc' = "run"
          /\ UNCHANGED <<connected, bread>>
    /\ UNCHANGED <<reconnect_interval, last_connection_attempt, now, npc,
                   nread, besideBackoff>>

\* connect(), except branch: self.reconnect_interval = min(... * 2, 120),
\* the assignment of the value computed from the interval read before
ConnectExceptStore ==
    /\ bpc = "except_store"
    /\ reconnect_interval' = NextInterval(bread)
    /\ bread' = 0
    /\ bpc' = "run"
    /\ UNCHANGED <<last_connection_attempt, now, looping, npc, nread,
                   connected, evt, besideBackoff>>

\* the network thread started by loop_start() reconnects by itself after a
\* connection was lost or refused (reconnect_delay_set): another CONNACK
AutoReconnect ==
    /\ looping
    /\ ~connected
    /\ evt = "none"
    /\ npc = "idle"
    /\ evt' \in Connacks
    /\ UNCHANGED <<reconnect_interval, last_connection_attempt, now, bpc,
                   looping, bread, npc, nread, connected,
                   besideBackoff>>

\* _on_connect, rc == 0: self.connected = True; self.reconnect_interval = 1
OnConnectAccepted ==
    /\ npc = "idle"
    /\ evt = "connack"
    /\ evt' = "none"
    /\ connected' = TRUE
    /\ reconnect_interval' = InitialReconnectInterval
    /\ UNCHANGED <<last_connection_attempt, now, bpc, looping, bread, npc,
                   nread, besideBackoff>>

\* _on_connect, rc != 0: self.connected = False, and the interval is read
OnConnectRefused ==
    /\ npc = "idle"
    /\ evt = "refused"
    /\ evt' = "none"
    /\ connected' = FALSE
    /\ nread' = reconnect_interval
    /\ npc' = "refused_store"
    /\ UNCHANGED <<reconnect_interval, last_connection_attempt, now, bpc,
                   looping, bread, besideBackoff>>

\* _on_connect, rc != 0: self.reconnect_interval = min(... * 2, 120), the
\* assignment
OnConnectRefusedStore ==
    /\ npc = "refused_store"
    /\ reconnect_interval' = NextInterval(nread)
    /\ nread' = 0
    /\ npc' = "idle"
    /\ UNCHANGED <<last_connection_attempt, now, bpc, looping, bread,
                   connected, evt, besideBackoff>>

\* _on_disconnect: the session is lost, self.connected = False
ConnectionLost ==
    /\ npc = "idle"
    /\ connected
    /\ evt = "none"
    /\ connected' = FALSE
    /\ UNCHANGED <<reconnect_interval, last_connection_attempt, now, bpc,
                   looping, bread, npc, nread, evt, besideBackoff>>

BackoffNext ==
    \/ Advance
    \/ ConnectAttempt
    \/ ClientConnect
    \/ ConnectExceptStore
    \/ AutoReconnect
    \/ OnConnectAccepted
    \/ OnConnectRefused
    \/ OnConnectRefusedStore
    \/ ConnectionLost

BackoffSpec == EmptyOutboxInit /\ [][BackoffNext]_vars

\* ================================================================= harness
\* NetworkFailureTester (src/testing/test_network_failures.py): run_all_tests
\* starts every device as a process of its own and runs scenarios; a
\* scenario stops the first devices of the list (the outage), watches their
\* outbox files, and measures the replay after the outage.  A device's
\* outbox is a file: it changes only while the device's process runs.
\* subprocess.Popen is taken to succeed, and a device's process ends only
\* when the harness stops it.

besideHarness == <<outboxVars, backoffVars, collectorVars, shaperVars,
                   storageVars, writerVars, retryVars, detectionVars>>

\* TEST_SCENARIOS: the disconnect_percent values
DisconnectPercents == {20, 30, 50}

\* a victim count rounded to the nearest integer (mutation)
num_to_disconnect_rounded(percent) == (NumDevices * percent + 50) \div 100

\* run_test_scenario: int(self.num_devices * disconnect_percent / 100)
num_to_disconnect(percent) == (NumDevices * percent) \div 100

\* run_test_scenario: self.device_ids[:num_to_disconnect]
devices_to_disconnect(percent) == 1..num_to_disconnect(percent)

\* run_test_scenario: self.device_ids[num_to_disconnect:]
devices_remaining(percent) == (num_to_disconnect(percent) + 1)..NumDevices

RECURSIVE SumOver(_, _)
SumOver(f, S) ==
    IF S = {} THEN 0
    ELSE LET d == CHOOSE x \in S : TRUE IN f[d] + SumOver(f, S \ {d})

\* _get_all_queue_sizes + sum(...values()): the rows in the outbox files of
\* the given devices
total_queue_size(ids) == SumOver(qsize, ids)

\* _measure_flush_time: `if total_initial == 0: return {...}`, which stands
\* before the call of _reconnect_devices
MeasureReturnsEarly(total_initial) == total_initial = 0

\* run_all_tests calls self._start_devices(): processes = {} and the loop
\* over self.device_ids begins
StartAll ==
    /\ hpc = "new"
    /\ processes' = {}
    /\ to_start' = device_ids
    /\ hpc' = "starting"
    /\ UNCHANGED <<device_processes, qsize, scenarios, alive, selectVars,
                   outageVars, measureVars, besideHarness>>

\* the id the loop of _start_devices takes next
NextToStart == CHOOSE d \in to_start : \A e \in to_start : d <= e

\* _start_devices, one iteration of its loop: subprocess.Popen starts the
\* device's process; processes[device_id] = process; time.sleep(0.1)
SpawnDevice ==
    /\ hpc \in {"starting", "reconnecting"}
    /\ to_start # {}
    /\ alive' = alive \cup {NextToStart}
    /\ processes' = processes \cup {NextToStart}
    /\ to_start' = to_start \ {NextToStart}
    /\ UNCHANGED <<device_processes, qsize, hpc, scenarios, selectVars,
                   outageVars, measureVars, besideHarness>>

\* _start_devices after its loop: time.sleep(5) and `return processes`;
\* run_all_tests: self.device_processes = <the returned dict>, then the ten
\* seconds to stabilise
StartReturn ==
    /\ hpc = "starting"
    /\ to_start = {}
    /\ device_processes' = processes
    /\ processes' = {}
    /\ hpc' = "idle"
    /\ UNCHANGED <<qsize, scenarios, alive, to_start, selectVars, outageVars,
                   measureVars, besideHarness>>

\* a running device appends a sample to its outbox (no connection) or
\* replays and clears it
DeviceOutbox(d) ==
    /\ d \in alive
    /\ hpc \notin {"new", "done", "exited"}
    /\ \/ qsize[d] < MaxOutbox /\ qsize' = [qsize EXCEPT ![d] = @ + 1]
       \/ qsize[d] > 0 /\ qsize' = [qsize EXCEPT ![d] = 0]
    /\ UNCHANGED <<device_processes, hpc, scenarios, alive, startVars,
                   selectVars, outageVars, measureVars, besideHarness>>

\* run_all_tests: the next scenario of the list; run_test_scenario picks
\* devices_to_disconnect and devices_remaining.  `result` is the result of
\* the scenario that returned last: none while this one runs.
ScenarioStart ==
    /\ hpc = "idle"
    /\ scenarios < MaxScenarios
    /\ \E percent \in DisconnectPercents :
          /\ disconnect_percent' = percent
          /\ victims' = devices_to_disconnect(percent)
          /\ remaining' = devices_remaining(percent)
    /\ scenarios' = scenarios + 1
    /\ polls' = 0
    /\ result' = NoResults
    /\ hpc' = "disconnect"
    /\ UNCHANGED <<device_processes, qsize, alive, startVars, outageVars,
                   flush_results, besideHarness>>

\* _stop_devices: terminate (or kill) the process of every given device that
\* has an entry in self.device_processes; `finally: del
\* self.device_processes[device_id]`
StillAlive(ids) == alive \ (ids \cap device_processes)

\* _get_all_queue_sizes(device_ids): the size of the outbox file of each
\* of the given devices (no entry, here 0, for the others)
get_all_queue_sizes(ids) ==
    [d \in device_ids |-> IF d \in ids THEN qsize[d] ELSE 0]

\* _disconnect_devices -> _stop_devices(victims); then _monitor_queue_growth
\* reads initial_sizes
Disconnect ==
    /\ hpc = "disconnect"
    /\ alive' = StillAlive(victims)
    /\ device_processes' = device_processes \ victims
    /\ initial_sizes' = get_all_queue_sizes(victims)
    /\ outage' = 0
    /\ hpc' = "monitor"
    /\ UNCHANGED <<qsize, scenarios, startVars, selectVars, measureVars,
                   besideHarness>>

\* _monitor_queue_growth, one iteration of its loop: the sizes are read and
\* recorded, time.sleep(interval); a publish interval of the devices passes
MonitorTick ==
    /\ hpc = "monitor"
    /\ outage < MaxOutage
    /\ outage' = outage + 1
    /\ UNCHANGED <<device_processes, qsize, hpc, scenarios, alive, startVars,
                   selectVars, initial_sizes, measureVars, besideHarness>>

\* _monitor_queue_growth returns at the end of the scenario's duration (its
\* locals are gone); _check_queue_limits and the statistics read the outbox
\* files only
Monitor ==
    /\ hpc = "monitor"
    /\ outage = MaxOutage
    /\ hpc' = "measure"
    /\ outage' = 0
    /\ initial_sizes' = get_all_queue_sizes({})
    /\ UNCHANGED <<device_processes, qsize, scenarios, alive, startVars,
                   selectVars, measureVars, besideHarness>>

\* _measure_flush_time, the result of its early return
EarlyResults == [flush_time_seconds |-> 0, all_messages_flushed |-> TRUE]

\* _measure_flush_time up to its loop: the early return on empty outboxes,
\* or _reconnect_devices, which calls _start_devices(victims)
MeasureFlush ==
    /\ hpc = "measure"
    /\ IF MeasureReturnsEarly(total_queue_size(victims))
       THEN /\ hpc' = "returned"
            /\ flush_results' = EarlyResults
            /\ UNCHANGED startVars
       ELSE /\ hpc' = "reconnecting"
            /\ processes' = {}
            /\ to_start' = victims
            /\ UNCHANGED flush_results
    /\ UNCHANGED <<device_processes, qsize, scenarios, alive, selectVars,
                   outageVars, polls, result, besideHarness>>

\* _reconnect_devices after _start_devices returned:
\* self.device_processes.update(new_processes); then time.sleep(2) and
\* start_time = time.time()
ReconnectReturn ==
    /\ hpc = "reconnecting"
    /\ to_start = {}
    /\ device_processes' = device_processes \cup processes
    /\ processes' = {}
    /\ hpc' = "poll"
    /\ UNCHANGED <<qsize, scenarios, alive, to_start, selectVars, outageVars,
                   measureVars, besideHarness>>

\* seconds between two tests of the loop of _measure_flush_time, such that
\* MaxPolls tests fall before the timeout
PollSeconds == FlushTimeout \div MaxPolls

\* _measure_flush_time: time.time() - start_time after n rounds of the loop
Elapsed(n) == n * PollSeconds

\* _measure_flush_time, the result when the summed size was seen at zero
FlushedResults(n) ==
    [flush_time_seconds |-> Elapsed(n), all_messages_flushed |-> TRUE]

\* _measure_flush_time, the result after the loop: flush_time = timeout
TimeoutResults ==
    [flush_time_seconds |-> FlushTimeout, all_messages_flushed |-> FALSE]

\* _measure_flush_time, the loop `while time.time() - start_time < timeout`:
\* return when the outboxes are empty, sleep and look again otherwise; after
\* the loop the timeout result
Poll ==
    /\ hpc = "poll"
    /\ IF Elapsed(polls) < FlushTimeout
       THEN IF total_queue_size(victims) = 0
            THEN /\ flush_results' = FlushedResults(polls)
                 /\ hpc' = "returned"
                 /\ polls' = polls
            ELSE /\ polls' = polls + 1
                 /\ UNCHANGED <<hpc, flush_results>>
       ELSE /\ flush_results' = TimeoutResults
            /\ hpc' = "returned"
            /\ polls' = polls
    /\ UNCHANGED <<device_processes, qsize, scenarios, alive, startVars,
                   selectVars, outageVars, result, besideHarness>>

\* run_test_scenario: "flush_time_target_met":
\* flush_results["flush_time_seconds"] < 30.0
flush_time_target_met(results) == results.flush_time_seconds < FlushTarget

\* run_test_scenario compiles and returns its result (its locals are
\* gone); run_all_tests stores it and waits before the next scenario
ScenarioReturn ==
    /\ hpc = "returned"
    /\ result' = [all_messages_flushed |-> flush_results.all_messages_flushed,
                  flush_time_seconds |-> flush_results.flush_time_seconds,
                  flush_time_target_met |->
                      flush_time_target_met(flush_results)]
    /\ flush_results' = NoResults
    /\ hpc' = "idle"
    /\ UNCHANGED <<device_processes, qsize, scenarios, alive, startVars,
                   selectVars, outageVars, polls, besideHarness>>

\* run_all_tests after the last scenario: _stop_all_devices
Cleanup ==
    /\ hpc = "idle"
    /\ scenarios = MaxScenarios
    /\ alive' = StillAlive(device_processes)
    /\ device_processes' = {}
    /\ hpc' = "done"
    /\ UNCHANGED <<qsize, scenarios, startVars, selectVars, outageVars,
                   measureVars, besideHarness>>

\* _signal_handler (SIGINT, SIGTERM), at whatever point the main thread is:
\* self.running = False, _stop_all_devices (the keys of
\* self.device_processes) and sys.exit(0)
Signal ==
    /\ hpc \notin {"new", "done", "exited"}
    /\ alive' = StillAlive(device_processes)
    /\ device_processes' = {}
    /\ hpc' = "exited"
    /\ UNCHANGED <<qsize, scenarios, startVars, selectVars, outageVars,
                   measureVars, besideHarness>>

HarnessNext ==
    \/ StartAll
    \/ SpawnDevice
    \/ StartReturn
    \/ \E d \in device_ids : DeviceOutbox(d)
    \/ ScenarioStart
    \/ Disconnect
    \/ MonitorTick
    \/ Monitor
    \/ MeasureFlush
    \/ ReconnectReturn
    \/ Poll
    \/ ScenarioReturn
    \/ Cleanup
    \/ Signal

HarnessSpec == EmptyOutboxInit /\ [][HarnessNext]_vars

\* the steps of the harness's one thread.  Every call it waits in is
\* bounded (time.sleep, Popen.wait(timeout=5), the loops on time.time()), so
\* the thread always takes its next step.
HarnessThread ==
    \/ StartAll
    \/ SpawnDevice
    \/ StartReturn
    \/ ScenarioStart
    \/ Disconnect
    \/ MonitorTick
    \/ Monitor
    \/ MeasureFlush
    \/ ReconnectReturn
    \/ Poll
    \/ ScenarioReturn
    \/ Cleanup

FairHarnessSpec ==
    EmptyOutboxInit /\ [][HarnessNext]_vars /\ WF_vars(HarnessThread)

\* ================================================================== writer
\* self.write_api: the batching writer of the store's client, configured by
\* MQTTCollector.__init__ and fed one point per call by _process_message.
\* The writer collects the points into a batch and submits the batch to the
\* store when batch_size points are pending or flush_interval milliseconds
\* have passed, after a delay of jitter_interval; the store stores the batch
\* or rejects it.  The collector gives the writer no success, error or
\* retry callback, so nothing of the collector runs when a batch fails.
\* Retries of a retriable error are modelled on their own (RetrySpec).

besideWriter ==
    <<outboxVars, backoffVars, shaperVars, harnessVars, storageVars,
      message_queue, shutdown_event, cpc, cmsg, waited, wpc, wmsg,
      write_api_closed, arrivals, written, dropped, calls, retryVars,
      detectionVars>>

\* the writer's own defaults, used when no write_options are given
\* (mutation)
WriteOptionsDefault ==
    [batch_size |-> 1000, flush_interval |-> 1000, jitter_interval |-> 0,
     retry_interval |-> 5000, max_retries |-> 5, max_retry_delay |-> 125000]

\* MQTTCollector.__init__: WriteOptions(batch_size = 250, flush_interval =
\* 500, jitter_interval = 0, retry_interval = 5000, max_retries = 3,
\* max_retry_delay = 30000)
WriteOptions ==
    [batch_size |-> 250, flush_interval |-> 500, jitter_interval |-> 0,
     retry_interval |-> 5000, max_retries |-> 3, max_retry_delay |-> 30000]

\* batch_size points are pending
BatchFull == pending >= WriteOptions.batch_size

\* the oldest pending point reaches flush_interval before the next step of
\* the clock
IntervalReached ==
    pending > 0 /\ age + TickMs > WriteOptions.flush_interval

FlushDue == BatchFull \/ IntervalReached

\* the option that makes the flush due
FlushCause == IF BatchFull THEN "batch_size" ELSE "flush_interval"

\* _process_message, from write_api.write to the counters: the writer
\* accepts the point, then processed_count += 1 and message_count += 1
WritePoint ==
    /\ processed_count < MaxPoints
    /\ ~BatchFull
    /\ pending' = pending + 1
    /\ age' = IF pending = 0 THEN 0 ELSE age
    /\ processed_count' = Increment(processed_count)
    /\ message_count' = Increment(message_count)
    /\ UNCHANGED <<error_count, rejected_batches, flushed_by, besideWriter>>

\* time passes while no flush is due
WriterClock ==
    /\ pending > 0
    /\ ~FlushDue
    /\ age' = age + TickMs
    /\ UNCHANGED <<pending, rejected_batches, flushed_by, counterVars,
                   besideWriter>>

\* the batch is submitted and the store stores it
FlushStored ==
    /\ FlushDue
    /\ pending' = 0
    /\ age' = 0
    /\ flushed_by' = FlushCause
    /\ UNCHANGED <<rejected_batches, counterVars, besideWriter>>

\* the batch is submitted and the store rejects it with an error that is
\* not retried (schema conflict, authorisation): the writer drops the
\* batch, and no code of the collector runs
FlushRejected ==
    /\ FlushDue
    /\ rejected_batches < MaxRejects
    /\ pending' = 0
    /\ age' = 0
    /\ flushed_by' = FlushCause
    /\ rejected_batches' = rejected_batches + 1
    /\ UNCHANGED <<counterVars, besideWriter>>

WriterNext ==
    \/ WritePoint
    \/ WriterClock
    \/ FlushStored
    \/ FlushRejected

WriterSpec == EmptyOutboxInit /\ [][WriterNext]_vars

\* ------------------------------------------------- retries of a submission
\* What the writer does with a batch the store did not take, after spec 4.5
\* (Retries): a retriable error (network, 5xx) is retried up to max_retries
\* times, the delay starting at retry_interval and capped at
\* max_retry_delay, with a small random jitter; after the last retry the
\* batch is abandoned and its points are lost.  The options are those of
\* MQTTCollector.__init__.

besideRetry ==
    <<outboxVars, backoffVars, collectorVars, shaperVars, harnessVars,
      storageVars, writerVars, detectionVars>>

\* the factor by which the delay grows from one retry to the next
ExponentialBase == 2

\* the jitter a delay may carry
Jitters == {0, MaxJitterMs}

\* the delay before retry number n + 1 (n retries made so far)
RetryDelay(n, jitter) ==
    Min(WriteOptions.retry_interval * ExponentialBase ^ n + jitter,
        WriteOptions.max_retry_delay)

\* a flush hands the next batch to the store
SubmitBatch ==
    /\ wstate = "idle"
    /\ batch < MaxBatches
    /\ batch' = batch + 1
    /\ wstate' = "submitted"
    /\ retries' = 0
    /\ delays' = <<>>
    /\ submissions' = [submissions EXCEPT ![batch + 1] = 1]
    /\ UNCHANGED <<outcome, besideRetry>>

\* the store takes the batch
SubmissionStored ==
    /\ wstate = "submitted"
    /\ outcome' = [outcome EXCEPT ![batch] = "stored"]
    /\ wstate' = "idle"
    /\ UNCHANGED <<batch, retries, delays, submissions, besideRetry>>

\* the submission fails with a retriable error: a retry is scheduled, or
\* the batch is abandoned when max_retries retries were made
SubmissionFailed ==
    /\ wstate = "submitted"
    /\ IF retries < WriteOptions.max_retries
       THEN /\ \E jitter \in Jitters :
                  delays' = Append(delays, RetryDelay(retries, jitter))
            /\ wstate' = "waiting"
            /\ UNCHANGED outcome
       ELSE /\ outcome' = [outcome EXCEPT ![batch] = "abandoned"]
            /\ wstate' = "idle"
            /\ UNCHANGED delays
    /\ UNCHANGED <<batch, retries, submissions, besideRetry>>

\* the delay is over: the batch is submitted again
Retry ==
    /\ wstate = "waiting"
    /\ retries' = retries + 1
    /\ submissions' = [submissions EXCEPT ![batch] = @ + 1]
    /\ wstate' = "submitted"
    /\ UNCHANGED <<batch, delays, outcome, besideRetry>>

RetryNext ==
    \/ SubmitBatch
    \/ SubmissionStored
    \/ SubmissionFailed
    \/ Retry

RetrySpec == EmptyOutboxInit /\ [][RetryNext]_vars

\* ======================================================== detection labels
\* DetectionLabelSimulator (src/devices/device_simulator.py): the label of
\* every sample comes from get_next_label, one call per tick.  The draws of
\* random are the inputs.

besideDetection ==
    <<outboxVars, backoffVars, collectorVars, shaperVars, harnessVars,
      storageVars, writerVars, retryVars>>

\* get_next_label: the labels random.choice picks from
Issues == {"eyes_closed", "distracted", "smoking", "phone_usage"}

\* get_next_label: random.randint(3, 5)
ReturnAfter == 3..5

\* get_next_label: `if self.label_duration > random.randint(3, 5)`
DurationOver(duration, draw) == duration > draw

\* get_next_label with random.random() < 0.9: a non-normal label gets one
\* tick older and is reset to normal when its duration is over the draw
StayLabel ==
    /\ label_ticks < MaxLabelTicks
    /\ label_ticks' = label_ticks + 1
    /\ IF current_label # "normal"
       THEN \E draw \in ReturnAfter :
               IF DurationOver(label_duration + 1, draw)
               THEN current_label' = "normal" /\ label_duration' = 0
               ELSE /\ current_label' = current_label
                    /\ label_duration' = label_duration + 1
       ELSE UNCHANGED <<current_label, label_duration>>
    /\ reported' = current_label'
    /\ UNCHANGED besideDetection

\* get_next_label with random.random() >= 0.9: an issue is detected
DetectIssue ==
    /\ label_ticks < MaxLabelTicks
    /\ label_ticks' = label_ticks + 1
    /\ \E label \in Issues : current_label' = label
    /\ label_duration' = 0
    /\ reported' = current_label'
    /\ UNCHANGED besideDetection

DetectionNext == StayLabel \/ DetectIssue

DetectionSpec == EmptyOutboxInit /\ [][DetectionNext]_vars

\* ------------------------------------------------------------------ claims

\* a step of the program that is not the stop and start of the process
SameProcess == restarts' = restarts

\* the rows a step deletes from the outbox
Removed == messages \ messages'

\* the step is add_message on a full outbox and r is the row it evicts
EvictedByAppend(r) ==
    /\ seq' = seq + 1
    /\ QueueFull(Cardinality(messages))
    /\ r = MinRow(messages)

\* C1: a record leaves the outbox only if a publish of it returned success
\* (during a replay) or it is the lowest-id record evicted by an append at
\* capacity; a record whose replay publish failed stays.
C1_RemovedOnlyAfterHandoffOrEviction ==
    [][\A r \in Removed : (r.msg \in handed' \/ EvictedByAppend(r))]_vars

\* C2: the clear at the end of a replay deletes no record that was appended
\* after the replay read its snapshot.
C2_ClearSparesLaterAppends ==
    [][(netpc = "flush_end" /\ netpc' = "idle" /\ SameProcess)
         => (\A r \in Removed : r \in Range(snapshot))]_vars

\* C3: the outbox never holds more than max_queue_size records.
C3_OutboxBound == get_queue_size(messages) <= MaxQueueSize

\* C3 witness: the outbox is at capacity after an append that evicted
C3_Witness == get_queue_size(messages) = MaxQueueSize /\ evicted # {}

\* what an add_message step does to the outbox it finds, below and at
\* capacity
AppendBoundary ==
    LET new == Row(seq + 1, cur)
        n   == Cardinality(messages)
    IN  /\ new \notin messages
        /\ n < MaxQueueSize
             => /\ messages' = messages \cup {new}
                /\ Cardinality(messages') = n + 1
        /\ n = MaxQueueSize
             => /\ \E old \in messages :
                      /\ \A r \in messages : old.id <= r.id
                      /\ messages' = (messages \ {old}) \cup {new}
                /\ Cardinality(messages') = MaxQueueSize

\* C4: add_message below capacity inserts and evicts nothing (size + 1);
\* add_message at capacity deletes exactly the lowest-id record, inserts the
\* new one and leaves the size at max_queue_size.
C4_AppendBoundary ==
    [][(mainpc \in {"add", "add_else", "add_exc"} /\ mainpc' # mainpc
          /\ SameProcess)
         => AppendBoundary]_vars

\* C4 witness: an append took the outbox from max_queue_size - 1 to
\* max_queue_size, and the next one evicted one record
C4_Witness ==
    /\ mainpc = "sleep"
    /\ queued
    /\ ticks = 2
    /\ Cardinality(evicted) = 1
    /\ Cardinality(messages) = MaxQueueSize

\* C5: within a replay the records are published in strictly increasing id
\* order.
C5_ReplayInIdOrder ==
    [][(lastPub' # lastPub /\ lastPub' # 0) => lastPub' > lastPub]_vars

\* C5 witness: a replay has published two records
C5_Witness == netpc = "flush_loop" /\ idx = 3 /\ lastPub = snapshot[2].id

\* C6: the first handoff of a sample to the broker never comes after the
\* first handoff of a sample produced later.
C6_ProductionOrder ==
    [][\A a \in handed' \ handed : (\A b \in handed : b < a)]_vars

Quiescent ==
    /\ mainpc \in {"start", "sleep"}
    /\ netpc = "idle"
    /\ evt = "none"

\* C8: when the device is connected and its outbox has drained, the samples
\* handed to the broker number the samples produced minus the records
\* evicted by drop-oldest.
C8_NoLossAfterDrain ==
    restarts = 0 /\ connected /\ link = "up" /\ Quiescent /\ messages = {}
        => Cardinality(handed) = produced - Cardinality(evicted)

\* C9: once the connection stays up and every publish succeeds, a connected
\* device with a non-empty outbox eventually empties it.
C9_ConnectedDrains ==
    (calm /\ connected /\ link = "up" /\ messages # {}) ~> (messages = {})

\* the ids the running replay has published up to position k of its snapshot
PublishedUpTo(k) == {snapshot[j].id : j \in 1..k}

\* the for loop of this process's first replay ends in this step
FirstReplayEnds ==
    /\ firstReplay = "running"
    /\ firstReplay' = "over"
    /\ SameProcess

\* C10 as stated: the records in the outbox when the process starts are all
\* published by the replay of its first successful connect.
C10_AllReplayedOnFirstConnect ==
    [][FirstReplayEnds => bootIds \subseteq PublishedUpTo(idx' - 1)]_vars

\* a restart keeps rows and ids; the first replay of a process snapshots the
\* surviving records it started with, in id order, and publishes them all
\* unless it is cut short
DurableAcrossRestart ==
    /\ restarts' # restarts
          => messages' = messages /\ seq' = seq /\ bootIds' = Ids(messages)
    /\ (firstReplay = "none" /\ firstReplay' # "none" /\ SameProcess)
          => /\ bootIds \ Ids(evicted) \subseteq Ids(Range(snapshot'))
             /\ \A j, k \in 1..Len(snapshot') :
                   j < k => snapshot'[j].id < snapshot'[k].id
    /\ FirstReplayEnds
          => \/ ~connected
             \/ bootIds \ Ids(evicted) \subseteq PublishedUpTo(idx' - 1)

\* C10, amended: a restart keeps the outbox, rows and ids; the replay of the
\* first successful connect snapshots, in id order, every record the process
\* started with that drop-oldest has not evicted since, and publishes them
\* in that order up to the end of the snapshot unless it finds
\* self.connected false.
C10_DurableAcrossRestart == [][DurableAcrossRestart]_vars

\* C10 witness: a restarted process, started with a non-empty outbox, has
\* finished the loop of its first replay
C10_Witness ==
    restarts > 0 /\ bootIds # {} /\ firstReplay = "over" /\ netpc = "flush_end"

\* ------------------------------------------------------- claims: collector

\* C11: the ring never holds more than MAX_QUEUE_SIZE messages, whatever the
\* interleaving of the receive callback and the workers.
C11_RingBound == Len(message_queue) <= MAX_QUEUE_SIZE

\* the callback found the ring full and discarded a message
C11_Witness == Len(message_queue) = MAX_QUEUE_SIZE /\ dropped > 0

\* the steps of _on_message on a full ring: put_nowait leaves the ring as
\* it is and raises Full at once; the except branch counts one error,
\* leaves the ring alone and returns, the message in no ring
FullRingCallback ==
    /\ (cpc = "loop" /\ arrivals' = arrivals + 1
            /\ Len(message_queue) >= MAX_QUEUE_SIZE)
          => (message_queue' = message_queue /\ cpc' = "full")
    /\ (cpc = "full" /\ cpc' # "full")
          => (/\ cpc' = "loop"
              /\ message_queue' = message_queue
              /\ error_count' = error_count + 1
              /\ \A k \in 1..Len(message_queue') : message_queue'[k] # cmsg)

\* C12: _on_message on a full ring does not wait for space: it returns with
\* the message discarded, the ring unchanged and error_count increased by
\* exactly one.
C12_FullRingDrops == [][FullRingCallback]_vars

\* a callback that met a full ring has returned
C12_Witness ==
    /\ cpc = "loop"
    /\ dropped = 1
    /\ error_count = 1
    /\ Len(message_queue) = MAX_QUEUE_SIZE

\* C13: for any one device, the points reach write_api.write in the order
\* in which the callback enqueued that device's messages.
C13_PerDeviceOrder ==
    \A i, j \in 1..Len(written) :
        (i < j /\ written[i].device = written[j].device)
            => written[i].n < written[j].n

AllExited == \A w \in Workers : wpc[w] = "exited"

\* C14: after shutdown_event is set and before the grace timeout, the
\* workers have not all exited while the ring still holds messages.
C14_DrainBeforeExit ==
    (shutdown_event /\ waited < GraceIterations /\ AllExited)
        => message_queue = <<>>

\* C15: when _shutdown is over, write_api.close() has been called.
C15_ShutdownCloses == cpc \in {"ended", "raised"} => write_api_closed

\* _process_message returns for a payload without device_id
NoDeviceIdCounted ==
    \A w \in Workers :
        (wpc[w] = "process" /\ wmsg[w].kind = "no_device_id"
                /\ wpc'[w] # "process")
            => (/\ written' = written
                /\ error_count' = error_count + 1
                /\ processed_count' = processed_count)

\* C16: a decoded payload without device_id produces no point, increases
\* the error counter by exactly one and leaves processed_count unchanged.
C16_NoDeviceIdCounted == [][NoDeviceIdCounted]_vars

\* _process_message returns for a payload that is not UTF-8 or not JSON
DecodeFailure ==
    \A w \in Workers :
        (wpc[w] = "process" /\ wmsg[w].kind \in {"bad_json", "bad_utf8"}
                /\ wpc'[w] # "process")
            => (/\ written' = written
                /\ error_count' = error_count + 1
                /\ processed_count' = processed_count
                /\ message_count' = message_count
                /\ message_queue' = message_queue
                /\ wpc'[w] = "check"
                /\ wmsg'[w] = NothingTaken)

\* C17: a payload that fails UTF-8 decoding or JSON parsing produces no
\* point, increases error_count by exactly one, is not put back into the
\* ring, and leaves the worker at the head of its loop.
C17_DecodeFailure == [][DecodeFailure]_vars

\* A worker b holds message n while every other worker is still busy with
\* a message older than n - 1 that it wrote and has not counted yet: it
\* was b that took message n - 1, the one error counted is its decode
\* failure, and b went on to take message n.
C17_Witness ==
    /\ dropped = 0
    /\ error_count = 1
    /\ processed_count = 0
    /\ \E b \in Workers :
          /\ wpc[b] = "process"
          /\ \A w \in Workers \ {b} :
                wpc[w] = "count" /\ wmsg[w].n < wmsg[b].n - 1

\* C18: message_count, processed_count and error_count never decrease.
C18_CountersMonotone ==
    [][/\ message_count' >= message_count
       /\ processed_count' >= processed_count
       /\ error_count' >= error_count]_vars

\* every counter has been increased
C18_Witness == message_count > 0 /\ processed_count > 0 /\ error_count > 1

\* -------------------------------------------------------- claims: shaper

FloatFields == {"speed", "cpu_usage", "ram_usage", "memory_percent",
                "disk_percent", "detection_confidence",
                "collector_receive_time", "publish_timestamp"}

IntFields == {"memory_total", "memory_used", "memory_available", "disk_total",
              "disk_used", "disk_free", "network_bytes_sent",
              "network_bytes_recv"}

\* C19: every field of every point has the numeric type of its name: the
\* fields of FloatFields are floats and those of IntFields integers,
\* whichever payload shape and JSON number type they come from.
C19_StableFieldTypes ==
    point.measurement = "device_data"
        => \A name \in DOMAIN point.fields :
              /\ name \in FloatFields \cup IntFields
              /\ name \in FloatFields => point.fields[name].t = "float"
              /\ name \in IntFields => point.fields[name].t = "int"

\* a nested payload of JSON floats gave integer and float fields, and an
\* empty nested object gave the defaults' types
C19_Witness ==
    /\ point.measurement = "device_data"
    /\ "telemetry" \in DOMAIN payload
    /\ "memory" \in DOMAIN payload["telemetry"]
    /\ "cpu_usage" \in DOMAIN payload["telemetry"]
    /\ payload["telemetry"]["cpu_usage"].t = "float"
    /\ DOMAIN payload["telemetry"]["memory"] = {}
    /\ point.fields["memory_total"] = Num("int", 0, 0)
    /\ point.fields["memory_percent"] = Num("float", 0, 0)
    /\ point.fields["cpu_usage"].t = "float"

\* ------------------------------------------------------- claims: backoff

\* the interval a failed attempt leaves behind, given the one it found
Doubled(interval) ==
    IF interval * BackoffFactor > MaxReconnectInterval
    THEN MaxReconnectInterval ELSE interval * BackoffFactor

\* the steps that complete a connect attempt: a failed one (the except
\* branch of connect(), or _on_connect with rc != 0) doubles the interval
\* up to the cap, a successful one (_on_connect with rc == 0) resets it;
\* the interval stays within its range
BackoffStep ==
    /\ reconnect_interval' >= InitialReconnectInterval
    /\ reconnect_interval' <= MaxReconnectInterval
    /\ (bpc = "except_store" /\ bpc' = "run")
          => reconnect_interval' = Doubled(reconnect_interval)
    /\ (npc = "refused_store" /\ npc' = "idle")
          => reconnect_interval' = Doubled(reconnect_interval)
    /\ (evt = "connack" /\ evt' = "none")
          => reconnect_interval' = InitialReconnectInterval

\* C20: reconnect_interval stays between 1 and 120; every failed connect
\* attempt doubles it up to the cap of 120, every successful connect resets
\* it to 1.
C20_Backoff == [][BackoffStep]_vars

\* -------------------------------------------------------- claims: harness

\* C21: when run_test_scenario returns, every victim device has a running
\* device process again (is present in device_processes), whatever the
\* victims' outbox sizes were at the end of the outage, including zero.
C21_VictimsReconnected ==
    hpc = "returned" => victims \subseteq device_processes

\* ------------------------------------------------- claims: storage errors

\* a step in which add_message raised
AddMessageRaised == io_errors' = io_errors + 1

\* C22: if add_message fails with a storage I/O error during a publish
\* tick, the failure is logged and counted and the device does not crash:
\* the run loop stays running and proceeds to the next tick.
C22_StorageErrorHandled ==
    [][AddMessageRaised =>
         /\ errors_logged' = errors_logged + 1
         /\ DeviceCounters # {}
         /\ mainpc' \in {"add_exc", "sleep"}]_vars

\* ------------------------------------------------ claims: replay and publish

\* a replay in which a publish failed publishes no further record, and its
\* end leaves the records from the failed one onward (at least those after
\* the first `flushed` ones) in the outbox, drop-oldest evictions aside
ReplayStopsAtFailure ==
    /\ (netpc = "flush_loop" /\ failed > 0 /\ SameProcess)
          => idx' # idx + 1
    /\ (netpc = "flush_end" /\ failed > 0 /\ SameProcess)
          => \A k \in (flushed + 1)..Len(snapshot) :
                 snapshot[k] \in messages' \cup evicted'

\* C23: during a replay, the first publish that fails (non-success result
\* code or exception) ends that replay: no record with a higher id is
\* published in the same replay, and all records from the failed one onward
\* remain in the outbox for the next connect cycle.
C23_ReplayStopsAtFailure == [][ReplayStopsAtFailure]_vars

\* the network thread is inside _flush_queue
MidReplay == netpc \in {"flush_get", "flush_loop", "flush_end"}

\* mid-replay the main thread sends a new sample to the outbox and calls
\* client.publish for none
NoDirectPublishMidReplay ==
    (MidReplay /\ SameProcess)
       => /\ ticks' = ticks + 1 => mainpc' = "add_else"
          /\ ~(mainpc = "publish" /\ mainpc' # "publish")

\* C24: while a replay of the outbox is in progress, the publish loop makes
\* no direct publish: a sample produced mid-replay is appended to the
\* outbox, so direct publishes and replay publishes of one device never
\* interleave.
C24_NoDirectPublishMidReplay == [][NoDirectPublishMidReplay]_vars

\* the main thread's step is a direct publish that failed
DirectPublishFailed ==
    mainpc = "publish" /\ mainpc' # mainpc /\ fails' = fails + 1

\* the handling of a failed direct publish, step by step: connected is set
\* to false (at once, or after add_message in the except branch) and the
\* message is appended
FailedDirectPublishHandled ==
    /\ (DirectPublishFailed /\ SameProcess)
          => \/ mainpc' = "add" /\ connected' = FALSE
             \/ mainpc' = "add_exc"
    /\ (mainpc \in {"add", "add_exc"} /\ mainpc' # mainpc /\ SameProcess)
          => queued'
    /\ (mainpc = "add_exc" /\ mainpc' # mainpc /\ SameProcess)
          => mainpc' = "unset"
    /\ (mainpc = "unset" /\ mainpc' # mainpc /\ SameProcess)
          => connected' = FALSE

\* C25: whenever a direct publish attempt fails, for every failure kind
\* (NO_CONN, queue-full or any other non-success result code, or an
\* exception), the device both sets connected = false and appends the
\* message to the outbox.
C25_FailedDirectPublish == [][FailedDirectPublishHandled]_vars

\* ------------------------------------------------ claims: connect() gate

\* connect() went past its gate: it recorded an attempt (client.connect
\* is the next call it makes)
AttemptIssued == last_connection_attempt' # last_connection_attempt

\* an attempt is recorded at the current time, and only when the time since
\* the attempt before it is at least the reconnect interval of that moment
AttemptsSpaced ==
    AttemptIssued
      => /\ last_connection_attempt' = now
         /\ now - last_connection_attempt >= reconnect_interval
         /\ bpc = "run" /\ bpc' = "client_connect"

\* C26: any two consecutive broker connect attempts issued by
\* DeviceSimulator.connect() are separated by at least the
\* reconnect_interval in force at the later call; connect() issues no
\* attempt when now - last_connection_attempt < reconnect_interval.
C26_AttemptsSpaced == [][AttemptsSpaced]_vars

\* C26 witness: after a failed attempt doubled the interval, connect()
\* issued the next attempt, the doubled interval or more after the first
C26_Witness ==
    /\ bpc = "client_connect"
    /\ reconnect_interval > InitialReconnectInterval
    /\ last_connection_attempt >= StartTime + reconnect_interval

\* ------------------------------------------- claims: collector in service

\* message n is in the ring
InRing(n) == \E k \in 1..Len(message_queue) : message_queue[k].n = n

\* C27: in the absence of shutdown, every message accepted into the ring is
\* eventually taken by exactly one worker and passed to _process_message
\* exactly once, for any number of workers and any interleaving: no message
\* is processed twice and none stays in the ring forever.
C27_ProcessedExactlyOnce ==
    /\ [](\A n \in 1..MaxArrivals : calls[n] <= 1)
    /\ \A n \in 1..MaxArrivals : InRing(n) ~> (calls[n] = 1 /\ ~InRing(n))

\* C27 witness: more messages than the ring holds were delivered and
\* accepted, and each of them was processed once; the workers idle
C27_Witness ==
    /\ arrivals = MaxArrivals
    /\ dropped = 0
    /\ message_queue = <<>>
    /\ \A w \in Workers : wpc[w] \in {"check", "get"}
    /\ \A n \in 1..MaxArrivals : calls[n] = 1

\* the whole burst went through the receive callback
BurstDelivered == arrivals = BurstSize /\ cpc = "loop"

\* C28: when a burst of 2*C messages is delivered to the receive callback of
\* a collector with ring capacity C and its worker threads running, at most
\* C points are written and the ring-full drop count is at least C.
C28_BurstBounds ==
    BurstDelivered
      => /\ Len(written) <= MAX_QUEUE_SIZE
         /\ dropped >= MAX_QUEUE_SIZE

\* C28 as amended: of a burst of 2*C messages at most C are dropped on a
\* full ring (at least C are accepted), every drop is counted in
\* error_count, and the points written are at most the 2*C - dropped
\* accepted messages
C28_BurstAccounting ==
    BurstDelivered
      => /\ dropped <= BurstSize - MAX_QUEUE_SIZE
         /\ error_count >= dropped
         /\ Len(written) <= BurstSize - dropped

\* C28 witness: the burst is over, the workers took messages during it:
\* one message was dropped, and more points than the ring holds are written
C28_Witness ==
    /\ BurstDelivered
    /\ dropped >= 1
    /\ dropped < MAX_QUEUE_SIZE
    /\ Len(written) > MAX_QUEUE_SIZE

\* --------------------------------------------------------- claims: writer

\* C29: when the store rejects a batch with a non-retriable error, the
\* collector aborts that batch and increments a write-failure counter: a
\* point whose batch was never stored is not left counted only as
\* successfully processed.
C29_RejectedBatchCounted == error_count >= rejected_batches

Counting == {w \in Workers : wpc[w] = "count"}

\* C37: the counter reported as "messages received" (message_count) equals
\* the counter reported as "messages processed" (processed_count) in every
\* state, and both count exactly the points handed to write_api.write whose
\* worker has passed the count_lock block: ring-full drops, failed decodes
\* and messages without device_id are in neither
C37_ReceivedEqualsProcessed ==
    /\ message_count = processed_count
    /\ message_count + Cardinality(Counting) = Len(written)

\* points were counted while a message was dropped on a full ring and
\* another one failed in _process_message
C37_Witness ==
    /\ message_count > 0
    /\ message_count = Len(written)
    /\ dropped > 0
    /\ error_count > 0
    /\ arrivals > message_count + dropped

(***************************************************************************)
(* C36: a replay that does not clear                                       *)
(***************************************************************************)

\* the step is the end of _flush_queue, in a replay that found the
\* connection down or had a failed publish and at most 90% handed off
ReplayEndsWithoutClear ==
    /\ netpc = "flush_end"
    /\ netpc' = "idle"
    /\ SameProcess
    /\ \/ ~connected
       \/ /\ failed > 0
          /\ flushed * FlushRatioDen <= FlushRatioNum * Len(snapshot)

\* C36 as stated: such a replay deletes nothing and the outbox then holds
\* every record it held when the replay began (handed off or not) plus the
\* records appended meanwhile
C36_ReplayKeepsSnapshot ==
    [][ReplayEndsWithoutClear
          => /\ messages' = messages
             /\ Range(snapshot) \subseteq messages']_vars

\* the end of such a replay leaves the outbox as it is, and every record of
\* the snapshot is still in the outbox unless add_message evicted it
ReplayDeletesNothing ==
    ReplayEndsWithoutClear
       => /\ messages' = messages
          /\ \A k \in 1..Len(snapshot) :
                 snapshot[k] \in messages' \cup evicted'
          /\ \A r \in messages' \ Range(snapshot) :
                 r.id > snapshot[Len(snapshot)].id

\* C36 (amended): a replay that ends with the connection down, or with a
\* failed publish and at most 90% of the snapshot handed off, deletes
\* nothing; afterwards the outbox holds the records of the snapshot (those
\* already handed off included) except the ones drop-oldest eviction
\* removed during the replay, plus the records appended meanwhile
C36_ReplayDeletesNothing == [][ReplayDeletesNothing]_vars

\* a replay is at its end with the connection down, after it handed off a
\* record that is still in the outbox
C36_Witness ==
    /\ netpc = "flush_end"
    /\ ~connected
    /\ flushed > 0
    /\ ~ShouldClear(flushed, failed, Len(snapshot), connected)
    /\ \E k \in 1..Len(snapshot) :
          snapshot[k].msg \in handed /\ snapshot[k] \in messages

(***************************************************************************)
(* C33: the victims of a scenario                                          *)
(***************************************************************************)

\* C33: in every scenario the victims are exactly the first
\* floor(N * p / 100) device ids of the device list (the ids d with
\* 100 * d <= N * p), and victims and remaining devices partition the list
C33_VictimSelection ==
    disconnect_percent # 0
       => /\ victims = {d \in device_ids :
                          100 * d <= NumDevices * disconnect_percent}
          /\ victims \cap remaining = {}
          /\ victims \cup remaining = device_ids

\* a scenario whose victim count was truncated, with victims and remaining
\* devices
C33_Witness ==
    /\ hpc = "disconnect"
    /\ victims # {}
    /\ remaining # {}
    /\ 100 * Cardinality(victims) < NumDevices * disconnect_percent

(***************************************************************************)
(* C34: _measure_flush_time                                                *)
(***************************************************************************)

\* the step is a return of _measure_flush_time
MeasureReturns == flush_results' # flush_results /\ hpc' = "returned"

\* a return with all_messages_flushed follows a read of the victims' sizes
\* that summed to zero; any other return comes when the timeout has elapsed
\* and reports the timeout as flush time
MeasureReports ==
    MeasureReturns
       => IF flush_results'.all_messages_flushed
          THEN total_queue_size(victims) = 0
          ELSE /\ Elapsed(polls) >= FlushTimeout
               /\ flush_results'.flush_time_seconds = FlushTimeout

\* C34: _measure_flush_time always returns (or the harness exits); it
\* reports all_messages_flushed only after it saw the victims' summed
\* outbox size at zero, and otherwise returns when the timeout has elapsed,
\* with all_messages_flushed false and the timeout as flush time, so the
\* scenario's flush_time_target_met is false when the outboxes did not drain
C34_MeasureTerminates ==
    /\ [][MeasureReports]_vars
    /\ [](result # NoResults /\ ~result.all_messages_flushed
             => ~result.flush_time_target_met)
    /\ (hpc = "measure") ~> (hpc \in {"returned", "exited"})

\* a scenario returned after the timeout with outboxes that did not drain
C34_Witness ==
    /\ result # NoResults
    /\ ~result.all_messages_flushed
    /\ result.flush_time_seconds = FlushTimeout
    /\ ~result.flush_time_target_met
    /\ total_queue_size(victims) > 0

(***************************************************************************)
(* C35: the victims' outboxes during the outage                            *)
(***************************************************************************)

\* C35: during the outage of a scenario every victim keeps producing: after
\* d publish intervals its outbox holds min(initial size + d, capacity)
\* records
C35_OutboxGrowsInOutage ==
    hpc = "monitor"
       => \A v \in victims :
             qsize[v] = Min(initial_sizes[v] + outage, MaxOutbox)

(***************************************************************************)
(* C39: the device processes when the harness ends                         *)
(***************************************************************************)

\* C39: when the harness has ended, by completion or by a signal, no device
\* process it started is running
C39_NoProcessLeft == hpc \in {"done", "exited"} => alive = {}

(***************************************************************************)
(* C40: the two payload shapes                                             *)
(***************************************************************************)

\* the keys of a nested object of the legacy format, each with the root key
\* the flat format has for the same value
FlatNames(g) ==
    CASE g = "memory"  -> {<<"total", "memory_total">>,
                           <<"used", "memory_used">>,
                           <<"available", "memory_available">>,
                           <<"percent", "memory_percent">>}
      [] g = "disk"    -> {<<"total", "disk_total">>, <<"used", "disk_used">>,
                           <<"free", "disk_free">>,
                           <<"percent", "disk_percent">>}
      [] g = "network" -> {<<"bytes_sent", "network_bytes_sent">>,
                           <<"bytes_recv", "network_bytes_recv">>}
      [] g = "detection" -> {<<"label", "detection_label">>,
                             <<"confidence", "detection_confidence">>}

\* the values an object carries under g, by their flat names
FlatPart(obj, g) ==
    IF g \in DOMAIN obj
    THEN LET present == {n \in FlatNames(g) : n[1] \in DOMAIN obj[g]}
         IN  [k \in {n[2] : n \in present} |->
                 obj[g][(CHOOSE n \in present : n[2] = k)[1]]]
    ELSE NoKeys

\* the flat payload that carries exactly the values of a nested legacy
\* payload p: a key absent from p is absent from it
FlatOf(p) ==
    LET t == p["telemetry"]
    IN  [k \in DOMAIN p \ {"telemetry", "detection"} |-> p[k]]
        @@ [k \in DOMAIN t \cap {"cpu_usage", "ram_usage"} |-> t[k]]
        @@ FlatPart(t, "memory") @@ FlatPart(t, "disk")
        @@ FlatPart(t, "network") @@ FlatPart(p, "detection")

\* C40: the point shaped from a nested legacy payload has the same field
\* names, the same field values and the same detection_label tag as the
\* point shaped from the flat payload that carries the same values, also
\* when keys are absent
C40_ShapesEquivalent ==
    (point.measurement = "device_data" /\ "telemetry" \in DOMAIN payload)
       => LET flat == Shape(FlatOf(payload), point.fields["collector_receive_time"])
          IN  /\ DOMAIN point.fields = DOMAIN flat.fields
              /\ \A name \in DOMAIN point.fields :
                    point.fields[name] = flat.fields[name]
              /\ point.detection_label = flat.detection_label

(***************************************************************************)
(* C38: the writer is closed after the workers                             *)
(***************************************************************************)

NominalDelay(k) == 5000 * 2 ^ (k - 1)

\* a batch is retried at most 3 times; the delay before retry k is at least
\* min(5 s * 2^(k-1), 30 s), exceeds that by a jitter of at most MaxJitterMs
\* and is never above 30 s, so the delays start at 5 s and do not shrink
RetriesBounded ==
    /\ retries <= 3
    /\ Len(delays) <= 3
    /\ \A b \in Batches : submissions[b] <= 4
    /\ \A k \in 1..Len(delays) :
          /\ delays[k] >= Min(NominalDelay(k), 30000)
          /\ delays[k] <= Min(NominalDelay(k) + MaxJitterMs, 30000)
          /\ k > 1 => delays[k] > delays[k - 1]

\* a batch is abandoned after its third retry failed (four submissions) and
\* a batch that was abandoned or stored is not submitted again
AbandonedForGood ==
    \A b \in Batches :
        /\ (outcome[b] # "abandoned" /\ outcome'[b] = "abandoned")
              => (retries = 3 /\ submissions[b] = 4)
        /\ outcome[b] # "none"
              => (submissions'[b] = submissions[b] /\ outcome'[b] = outcome[b])

\* C31: each batch is retried at most max_retries = 3 times after a
\* retriable failure; the delay before a retry starts at 5 s, grows
\* exponentially, carries a small random jitter and never exceeds 30 s;
\* after the last failed retry the batch is abandoned and never submitted
\* again
C31_RetriesBounded == [](RetriesBounded) /\ [][AbandonedForGood]_vars

\* a batch was abandoned after three retries with delays that grew (one of
\* them with jitter), and a later batch has been submitted
C31_Witness ==
    /\ \E b \in Batches :
          outcome[b] = "abandoned" /\ submissions[b] = 4 /\ batch > b
    /\ Len(delays) = 3
    /\ delays[1] = 5000
    /\ delays[2] > 10000
    /\ delays[3] >= 20000

(***************************************************************************)
(* C32: how long a detection lasts                                         *)
(***************************************************************************)

\* the call resets a non-normal label
LabelReset == current_label # "normal" /\ current_label' = "normal"

\* the tick that resets the label reports normal; the reset comes on the
\* third, fourth or fifth tick after the one that chose the label, and a
\* label that no new choice replaced is not non-normal later than that
BackToNormal ==
    /\ LabelReset
          => /\ reported' = "normal"
             /\ label_duration + 1 >= 3
             /\ label_duration + 1 <= 5
    /\ current_label' # "normal" => label_duration' < 5

\* C32: in get_next_label the tick on which the label is reset reports
\* normal, and a non-normal label that is not replaced by a new one is back
\* to normal after at least 3 and at most 5 further ticks, whatever the
\* random draws
C32_BackToNormal == [][BackToNormal]_vars

====
